---- MODULE Spec2Model ----
(***************************************************************************)
(* A model of the BidMule estimating tool: the financial model and its     *)
(* inversions (app.py, core/pricing.py), the catalog resolver and its      *)
(* cache (core/catalog.py), the trade pricer's line builder                *)
(* (trades/registry.py) and the Costs-grid edit / recompute protocol of    *)
(* the main window (app.py).                                               *)
(*                                                                         *)
(* Money and rates are exact rationals <<n, d>> (d > 0, lowest terms), so  *)
(* the piecewise formulas are computed as the code computes them, without  *)
(* floating-point noise.                                                   *)
(***************************************************************************)
EXTENDS Integers, Sequences, FiniteSets, TLC

VARIABLES
    fin,            \* financial model: the last call and its results
    file,           \* catalog.json on disk: [exists, valid, content, mtime]
    CATALOG_CACHE,  \* core/catalog.py _CATALOG_CACHE
    CATALOG_MTIME,  \* core/catalog.py _CATALOG_MTIME
    catret,         \* what the load_catalog / reload_catalog call just made returned
    lookup,         \* the last Catalog.item_cost call and its result
    priced,         \* the last price_trade call and its result
    ui,             \* the main window: job, grids, flags and the handler in flight
    roll,           \* the last financial rollup computed and the function that made it
    saved,          \* a job run: what was priced, what was written, what open_job rebuilt
    det,            \* two estimating runs on equal inputs and their surroundings
    hover,          \* the last HOVER text parsed and what the parser returned
    coil,           \* the last materials list given to the coil split and its result
    est,            \* one job estimated by compute_estimate and priced by price_trade
    units           \* the last string given to ft_in_to_ft and what the call did

finVars == <<fin>>
catVars == <<file, CATALOG_CACHE, CATALOG_MTIME, catret>>
costVars == <<lookup, priced>>
uiVars == <<ui>>
auxVars == <<roll, saved, det, hover, coil, est, units>>
vars == <<finVars, catVars, costVars, uiVars, auxVars>>

None == 0           \* Python's None

(***************************************************************************)
(* Bounds of the model.                                                    *)
(***************************************************************************)
MaxCost == 3        \* costs C range over 1..MaxCost (dollars)

(***************************************************************************)
(* Exact rational arithmetic.                                              *)
(***************************************************************************)
Abs(n) == IF n < 0 THEN -n ELSE n

RECURSIVE GCD(_, _)
GCD(a, b) == IF b = 0 THEN a ELSE GCD(b, a % b)

Rat(n, d) ==
    LET s == IF d < 0 THEN -1 ELSE 1
        k == GCD(Abs(n), Abs(d))
    IN  IF d = 0 THEN <<n \div d, 1>>      \* ZeroDivisionError: no value
        ELSE IF n = 0 THEN <<0, 1>>
        ELSE <<(s * n) \div k, (s * d) \div k>>

RInt(n) == <<n, 1>>
RAdd(x, y) ==
    LET k == GCD(x[2], y[2])
    IN  Rat(x[1] * (y[2] \div k) + y[1] * (x[2] \div k), (x[2] \div k) * y[2])
RNeg(x) == <<-x[1], x[2]>>
RSub(x, y) == RAdd(x, RNeg(y))
RMul(x, y) ==
    LET a == Rat(x[1], y[2])
        b == Rat(y[1], x[2])
    IN  Rat(a[1] * b[1], a[2] * b[2])
RDiv(x, y) == RMul(x, Rat(y[2], y[1]))
RLe(x, y) == RSub(x, y)[1] <= 0
RLt(x, y) == RSub(x, y)[1] < 0
RMax(x, y) == IF RLe(x, y) THEN y ELSE x
RMin(x, y) == IF RLe(x, y) THEN x ELSE y
RAbs(x) == <<Abs(x[1]), x[2]>>
Pct(p) == Rat(p, 100)      \* p hundredths

(***************************************************************************)
(* Comparisons against a threshold shifted by the code's eps = 1e-9.       *)
(* A non-negative rational n/d is <= 1e-9 iff n = 0 or d \div n >= 10^9.   *)
(***************************************************************************)
EpsInv == 1000000000
Eps == <<1, EpsInv>>
LeEps(x) == x[1] <= 0 \/ (x[2] \div x[1]) >= EpsInv        \* x <= eps
LtEps(x) ==                                                 \* x < eps
    x[1] <= 0 \/ (x[2] \div x[1]) > EpsInv
    \/ ((x[2] \div x[1]) = EpsInv /\ (x[2] % x[1]) > 0)
GeMinusEps(x, a) == LeEps(RSub(a, x))                       \* x >= a - eps
LtMinusEps(x, a) == ~LeEps(RSub(a, x))                      \* x <  a - eps
GtPlusEps(x, a) == ~LeEps(RSub(x, a))                       \* x >  a + eps
MaxEps(x) == IF LeEps(x) THEN Eps ELSE x                    \* max(eps, x)

Zero == RInt(0)
One == RInt(1)
P20 == Pct(20)
P30 == Pct(30)
P80 == Pct(80)
P70 == Pct(70)
P10 == Pct(10)
P90 == Pct(90)
TwoThirds == Rat(2, 3)

(***************************************************************************)
(* app.py: the commission schedule and its inversions.                     *)
(***************************************************************************)
\* a schedule whose top band forgets the division by three
commission_rate_from_gross_gm_nodiv(g) ==
    IF RLe(g, P20) THEN Zero
    ELSE IF RLt(g, P30) THEN RSub(g, P20)
    ELSE RAdd(P10, RSub(g, P30))

commission_rate_from_gross_gm(g) ==
    IF RLe(g, P20) THEN Zero
    ELSE IF RLt(g, P30) THEN RSub(g, P20)
    ELSE RDiv(g, RInt(3))

\* g = 0.0 if rev <= 0 else 1.0 - (C / rev)
ImpliedGM(C, rev) == IF RLe(rev, Zero) THEN Zero ELSE RSub(One, RDiv(C, rev))

\* an inversion that takes the region-3 candidate without checking its margin
solve_revenue_from_commission_unchecked(comm_dollars, cogs) ==
    RAdd(RMul(RInt(3), RMax(Zero, comm_dollars)), cogs)

solve_revenue_from_commission(comm_dollars, cogs) ==
    LET C == cogs
        Comm == RMax(Zero, comm_dollars)
        rev3 == RAdd(RMul(RInt(3), Comm), C)
        g3 == ImpliedGM(C, rev3)
        rev2 == RDiv(RAdd(Comm, C), P80)
        g2 == ImpliedGM(C, rev2)
    IN  IF GeMinusEps(g3, P30) THEN rev3
        ELSE IF GtPlusEps(g2, P20) /\ LtMinusEps(g2, P30) THEN rev2
        ELSE RDiv(C, MaxEps(RSub(One, P20)))

\* an inversion that takes the region-3 candidate without checking its margin
solve_revenue_from_profit_unchecked(profit_dollars, cogs, overhead_rate) ==
    RDiv(RAdd(profit_dollars, RMul(TwoThirds, cogs)), RSub(TwoThirds, overhead_rate))

solve_revenue_from_profit(profit_dollars, cogs, overhead_rate) ==
    LET p == profit_dollars
        C == cogs
        r == overhead_rate
        denom3 == RSub(TwoThirds, r)
        rev3 == RDiv(RAdd(p, RMul(TwoThirds, C)), denom3)
        denom2 == RSub(P20, r)
        rev2 == RDiv(p, denom2)
        denom1 == RSub(One, r)
    IN  IF ~LeEps(RAbs(denom3)) /\ GeMinusEps(ImpliedGM(C, rev3), P30)
        THEN rev3
        ELSE IF ~LeEps(RAbs(denom2))
                /\ GtPlusEps(ImpliedGM(C, rev2), P20)
                /\ LtMinusEps(ImpliedGM(C, rev2), P30)
        THEN rev2
        ELSE RDiv(RAdd(p, C), MaxEps(denom1))

(***************************************************************************)
(* core/pricing.py: the second copy of the same three functions.           *)
(***************************************************************************)
pricing_commission_rate_from_gross_gm(g) ==
    IF RLe(g, P20) THEN Zero
    ELSE IF RLt(g, P30) THEN RMin(RMax(RSub(g, P20), Zero), P10)
    ELSE RAdd(P10, RDiv(RMax(RSub(g, P30), Zero), RInt(3)))

pricing_solve_revenue_from_commission(comm_dollars, cogs) ==
    LET C == cogs
        K == comm_dollars
        threshold == RDiv(C, RInt(7))
    IN  IF RLe(K, Zero) THEN RMax(RDiv(C, P80), C)
        ELSE IF RLt(K, threshold) THEN RDiv(RAdd(K, C), P80)
        ELSE RAdd(RMul(RInt(3), K), C)

pricing_solve_revenue_from_profit(profit_dollars, cogs, overhead_rate) ==
    LET P == profit_dollars
        C == cogs
        r == overhead_rate
        R0 == RDiv(C, P70)
        P30v == RSub(RMul(RSub(P90, r), R0), C)
        denomLo == RSub(P20, r)
        Rmin == RDiv(C, P80)
        Rraw == RDiv(P, denomLo)
        denomHi == RSub(TwoThirds, r)
    IN  IF RLe(P, P30v)
        THEN IF LtEps(RAbs(denomLo)) THEN R0
             ELSE RMin(RMax(Rraw, Rmin), R0)
        ELSE IF LtEps(RAbs(denomHi))
             THEN RAdd(RMul(RInt(3), P), RMul(TwoThirds, C))
             ELSE RDiv(RAdd(P, RMul(TwoThirds, C)), denomHi)

(***************************************************************************)
(* The forward model (spec 4.5; app.py recompute_pricing steps 5):         *)
(* revenue = C/(1-g), commission = rate(g)*revenue,                        *)
(* profit = revenue - C - r*revenue - commission.                          *)
(***************************************************************************)
ForwardRevenue(C, g) == RDiv(C, RSub(One, g))
ForwardCommission(C, g) == RMul(commission_rate_from_gross_gm(g), ForwardRevenue(C, g))
ForwardProfit(C, g, r) ==
    LET R == ForwardRevenue(C, g)
    IN  RSub(RSub(RSub(R, C), RMul(r, R)), RMul(commission_rate_from_gross_gm(g), R))

(***************************************************************************)
(* The financial functions as a state machine: each step is one call (or   *)
(* one forward-then-inverse round trip) on inputs drawn from small grids;  *)
(* fin records the inputs and what both copies returned.                   *)
(***************************************************************************)
GMaxPct == 95                   \* the 0.95 ceiling of the margin
MaxTarget == 4                  \* dollar targets range over -MaxTarget..MaxTarget
BigTarget == 1000000            \* a very large dollar target
GPcts == 0 .. GMaxPct           \* margins g, in hundredths
OverheadPcts == {0, 10, 15, 19, 20, 21, 25, 50, 70, 99}     \* overhead rates r
RatePermilles ==                \* sample margins on [0, 1], in thousandths
    {10 * k : k \in 0 .. 100} \cup (195 .. 205) \cup (295 .. 305)
Costs == 1 .. MaxCost
Targets == (-MaxTarget .. MaxTarget) \cup {BigTarget, -BigTarget}

FinIdle ==
    [op |-> "none", want |-> "none", C |-> Zero, g |-> Zero, h |-> Zero, r |-> Zero,
     t |-> Zero, rev |-> Zero, app |-> Zero, core |-> Zero, app2 |-> Zero, core2 |-> Zero]

\* the inputs of one call, before it is made
FinInputs ==
    {[FinIdle EXCEPT !.want = "rate", !.g = Rat(g, 1000), !.h = Rat(h, 1000)] :
        g \in RatePermilles, h \in RatePermilles}
    \cup {[FinIdle EXCEPT !.want = "comm_rt", !.C = RInt(C), !.g = Pct(g)] :
        C \in Costs, g \in GPcts}
    \cup {[FinIdle EXCEPT !.want = "profit_rt", !.C = RInt(C), !.g = Pct(g), !.r = Pct(r)] :
        C \in Costs, g \in GPcts, r \in OverheadPcts}
    \cup {[FinIdle EXCEPT !.want = "solve_comm", !.C = RInt(C), !.t = RInt(t)] :
        C \in 0 .. MaxCost, t \in Targets}
    \cup {[FinIdle EXCEPT !.want = "solve_profit", !.C = RInt(C), !.r = Pct(r), !.t = RInt(t)] :
        C \in 0 .. MaxCost, r \in OverheadPcts, t \in Targets}

FinRest == UNCHANGED <<catVars, costVars, uiVars, auxVars>>

FinPending(w) == fin.op = "none" /\ fin.want = w

\* commission_rate_from_gross_gm at two margins g and h, by both copies
FinRate ==
    /\ FinPending("rate")
    /\ fin' = [fin EXCEPT !.op = "rate",
                  !.app = commission_rate_from_gross_gm(fin.g),
                  !.core = pricing_commission_rate_from_gross_gm(fin.g),
                  !.app2 = commission_rate_from_gross_gm(fin.h),
                  !.core2 = pricing_commission_rate_from_gross_gm(fin.h)]
    /\ FinRest

\* forward revenue and commission at margin g, then solve_revenue_from_commission
FinCommissionRoundTrip ==
    /\ FinPending("comm_rt")
    /\ LET K == ForwardCommission(fin.C, fin.g)
       IN  fin' = [fin EXCEPT !.op = "comm_rt", !.t = K,
                      !.rev = ForwardRevenue(fin.C, fin.g),
                      !.app = solve_revenue_from_commission(K, fin.C),
                      !.core = pricing_solve_revenue_from_commission(K, fin.C)]
    /\ FinRest

\* forward revenue and profit at margin g, then solve_revenue_from_profit
FinProfitRoundTrip ==
    /\ FinPending("profit_rt")
    /\ LET p == ForwardProfit(fin.C, fin.g, fin.r)
       IN  fin' = [fin EXCEPT !.op = "profit_rt", !.t = p,
                      !.rev = ForwardRevenue(fin.C, fin.g),
                      !.app = solve_revenue_from_profit(p, fin.C, fin.r),
                      !.core = pricing_solve_revenue_from_profit(p, fin.C, fin.r)]
    /\ FinRest

\* solve_revenue_from_commission on an arbitrary target
FinSolveCommission ==
    /\ FinPending("solve_comm")
    /\ fin' = [fin EXCEPT !.op = "solve_comm",
                  !.app = solve_revenue_from_commission(fin.t, fin.C),
                  !.core = pricing_solve_revenue_from_commission(fin.t, fin.C)]
    /\ FinRest

\* solve_revenue_from_profit on an arbitrary target
FinSolveProfit ==
    /\ FinPending("solve_profit")
    /\ fin' = [fin EXCEPT !.op = "solve_profit",
                  !.app = solve_revenue_from_profit(fin.t, fin.C, fin.r),
                  !.core = pricing_solve_revenue_from_profit(fin.t, fin.C, fin.r)]
    /\ FinRest

\* the parts of the state a specification does not exercise stay as constructed
FinUnused == fin = FinIdle
CatUnused ==
    /\ file = [exists |-> TRUE, valid |-> TRUE, content |-> 1, mtime |-> 1]
    /\ CATALOG_CACHE = None
    /\ CATALOG_MTIME = None
    /\ catret = [op |-> "none", ok |-> TRUE, value |-> None,
                 pre_cache |-> None, pre_mtime |-> None]
CostUnused ==
    /\ lookup = None
    /\ priced = None
UiUnused ==
    /\ ui = None
    /\ roll = None
    /\ saved = None
    /\ det = None
    /\ hover = None
    /\ coil = None
    /\ est = None
    /\ units = None

FinInit ==
    /\ fin \in FinInputs
    /\ CatUnused
    /\ CostUnused
    /\ UiUnused

FinNext ==
    \/ FinRate
    \/ FinCommissionRoundTrip
    \/ FinProfitRoundTrip
    \/ FinSolveCommission
    \/ FinSolveProfit

SpecFin == FinInit /\ [][FinNext]_vars

(***************************************************************************)
(* core/catalog.py: the catalog file and the in-process cache.             *)
(* A catalog is identified by its content (a number 1..MaxContent); the    *)
(* file's modification time ranges over 1..MaxMtime.                       *)
(***************************************************************************)
MaxContent == 3
MaxMtime == 3

\* os.path.getmtime, with OSError mapped to None (load_catalog lines 84-87)
GetMtime(f) == IF f.exists THEN f.mtime ELSE None

\* _read_catalog_from_disk: FileNotFoundError, a JSON error, or the catalog
read_catalog_from_disk(f) ==
    IF ~f.exists THEN [ok |-> FALSE, value |-> None]
    ELSE IF ~f.valid THEN [ok |-> FALSE, value |-> None]
    ELSE [ok |-> TRUE, value |-> f.content]

\* a loader that serves any cached catalog without looking at the mtime
load_catalog_nomtime(cache, cmtime, f) ==
    LET rd == read_catalog_from_disk(f)
    IN  IF cache = None
        THEN IF rd.ok
             THEN [cache |-> rd.value, mtime |-> GetMtime(f), ok |-> TRUE, value |-> rd.value]
             ELSE [cache |-> cache, mtime |-> cmtime, ok |-> FALSE, value |-> None]
        ELSE [cache |-> cache, mtime |-> cmtime, ok |-> TRUE, value |-> cache]

\* a loader that records the modification time before it reads the file
load_catalog_mtime_first(cache, cmtime, f) ==
    LET mtime == GetMtime(f)
        rd == read_catalog_from_disk(f)
    IN  IF cache = None \/ cmtime # mtime
        THEN IF rd.ok
             THEN [cache |-> rd.value, mtime |-> mtime, ok |-> TRUE, value |-> rd.value]
             ELSE [cache |-> cache, mtime |-> mtime, ok |-> FALSE, value |-> None]
        ELSE [cache |-> cache, mtime |-> cmtime, ok |-> TRUE, value |-> cache]

\* load_catalog on cache state (cache, cmtime) and file f: the new cache state
\* and what the call returns (ok = FALSE: the read raised, nothing assigned)
load_catalog(cache, cmtime, f) ==
    LET mtime == GetMtime(f)
        rd == read_catalog_from_disk(f)
    IN  IF cache = None \/ cmtime # mtime
        THEN IF rd.ok
             THEN [cache |-> rd.value, mtime |-> mtime, ok |-> TRUE, value |-> rd.value]
             ELSE [cache |-> cache, mtime |-> cmtime, ok |-> FALSE, value |-> None]
        ELSE [cache |-> cache, mtime |-> cmtime, ok |-> TRUE, value |-> cache]

\* reload_catalog: clear both globals, then load_catalog
reload_catalog(f) == load_catalog(None, None, f)

CatRest == UNCHANGED <<finVars, costVars, uiVars, auxVars>>

\* no call has just returned
NoCall == [op |-> "none", ok |-> TRUE, value |-> None, pre_cache |-> None, pre_mtime |-> None]

\* the file is rewritten: new content, and a modification time that changes
ModifyFile ==
    /\ \E c \in 1 .. MaxContent, m \in 1 .. MaxMtime :
          /\ m # GetMtime(file)
          /\ file' = [exists |-> TRUE, valid |-> TRUE, content |-> c, mtime |-> m]
    /\ catret' = NoCall
    /\ UNCHANGED <<CATALOG_CACHE, CATALOG_MTIME>>
    /\ CatRest

\* the file is rewritten with text that is not valid JSON
CorruptFile ==
    /\ file.exists
    /\ \E m \in 1 .. MaxMtime :
          /\ m # file.mtime
          /\ file' = [file EXCEPT !.valid = FALSE, !.mtime = m]
    /\ catret' = NoCall
    /\ UNCHANGED <<CATALOG_CACHE, CATALOG_MTIME>>
    /\ CatRest

DeleteFile ==
    /\ file.exists
    /\ file' = [file EXCEPT !.exists = FALSE]
    /\ catret' = NoCall
    /\ UNCHANGED <<CATALOG_CACHE, CATALOG_MTIME>>
    /\ CatRest

LoadCatalog ==
    /\ LET res == load_catalog(CATALOG_CACHE, CATALOG_MTIME, file)
       IN  /\ CATALOG_CACHE' = res.cache
           /\ CATALOG_MTIME' = res.mtime
           /\ catret' = [op |-> "load", ok |-> res.ok, value |-> res.value,
                         pre_cache |-> CATALOG_CACHE, pre_mtime |-> CATALOG_MTIME]
    /\ UNCHANGED file
    /\ CatRest

ReloadCatalog ==
    /\ LET res == reload_catalog(file)
       IN  /\ CATALOG_CACHE' = res.cache
           /\ CATALOG_MTIME' = res.mtime
           /\ catret' = [op |-> "reload", ok |-> res.ok, value |-> res.value,
                         pre_cache |-> CATALOG_CACHE, pre_mtime |-> CATALOG_MTIME]
    /\ UNCHANGED file
    /\ CatRest

CatInit ==
    /\ \E c \in 1 .. MaxContent, m \in 1 .. MaxMtime :
          file = [exists |-> TRUE, valid |-> TRUE, content |-> c, mtime |-> m]
    /\ CATALOG_CACHE = None
    /\ CATALOG_MTIME = None
    /\ catret = [op |-> "none", ok |-> TRUE, value |-> None,
                 pre_cache |-> None, pre_mtime |-> None]
    /\ FinUnused
    /\ CostUnused
    /\ UiUnused

CatNext ==
    \/ ModifyFile
    \/ CorruptFile
    \/ DeleteFile
    \/ LoadCatalog
    \/ ReloadCatalog

SpecCat == CatInit /\ [][CatNext]_vars

(***************************************************************************)
(* Claims about the financial model (checked under SpecFin).               *)
(***************************************************************************)

\* C7 (as stated): for every cost C > 0 and margin g in [0, 0.95] that is not
\* on a band boundary, solve_revenue_from_commission applied to the forward
\* commission at g returns the forward revenue C/(1-g).
Orig_C7_CommissionRoundTrip ==
    (fin.op = "comm_rt" /\ fin.g \notin {Zero, P20, P30, Pct(GMaxPct)})
        => fin.app = fin.rev

\* C7 (amended): the round trip returns the forward revenue for every margin
\* g in [0.20, 0.95], in both copies of the function; below 0.20 the commission
\* is 0 and the inversion returns the 20% boundary revenue C/0.80 instead.
Thm_C7_CommissionRoundTrip ==
    fin.op = "comm_rt" =>
        /\ RLe(P20, fin.g) => (fin.app = fin.rev /\ fin.core = fin.rev)
        /\ RLt(fin.g, P20) => (fin.app = RDiv(fin.C, P80) /\ fin.core = RDiv(fin.C, P80))

Wit_C7_CommissionRoundTrip ==
    /\ fin.op = "comm_rt"
    /\ fin.g = Pct(25)
    /\ RLt(Zero, fin.t)
    /\ fin.app = fin.rev

\* C8 (as stated): for every cost C > 0, overhead rate r and revenue R >= C,
\* solve_revenue_from_profit applied to the forward profit returns R.
Orig_C8_ProfitRoundTrip ==
    fin.op = "profit_rt" => fin.app = fin.rev

\* C8 (amended): for every overhead rate r < 0.20 the app.py inversion returns
\* R in every band and at both boundaries, and the core/pricing.py copy returns
\* R whenever g >= 0.20.
Thm_C8_ProfitRoundTrip ==
    (fin.op = "profit_rt" /\ RLt(fin.r, P20)) =>
        /\ fin.app = fin.rev
        /\ RLe(P20, fin.g) => fin.core = fin.rev

Wit_C8_ProfitRoundTrip ==
    /\ fin.op = "profit_rt"
    /\ fin.r = Pct(10)
    /\ fin.g = P30
    /\ fin.C = RInt(MaxCost)
    /\ fin.app = RDiv(fin.C, P70)

\* C9 (as stated): for every cost C >= 0, overhead rate r in [0, 1) and every
\* target, both inversions return a non-negative revenue.
Orig_C9_InversionNonNegative ==
    fin.op \in {"solve_comm", "solve_profit"} =>
        (RLe(Zero, fin.app) /\ RLe(Zero, fin.core))

\* C10: commission_rate_from_gross_gm is 0 up to 0.20, g - 0.20 between 0.20
\* and 0.30 and g/3 from 0.30 on; between any two margins g <= h the rate
\* rises by at least 0 and at most h - g (non-decreasing, no jump at a
\* breakpoint); both copies return the same rate.
Thm_C10_CommissionRate ==
    fin.op = "rate" =>
        /\ RLe(fin.g, P20) => fin.app = Zero
        /\ (RLt(P20, fin.g) /\ RLt(fin.g, P30)) => fin.app = RSub(fin.g, P20)
        /\ RLe(P30, fin.g) => fin.app = RDiv(fin.g, RInt(3))
        /\ fin.g = P30 => fin.app = P10
        /\ RLe(fin.g, fin.h) =>
              /\ RLe(fin.app, fin.app2)
              /\ RLe(RSub(fin.app2, fin.app), RSub(fin.h, fin.g))
        /\ fin.core = fin.app
        /\ fin.core2 = fin.app2

Wit_C10_CommissionRate ==
    /\ fin.op = "rate"
    /\ fin.g = Rat(299, 1000)
    /\ fin.h = P30
    /\ fin.app = Rat(99, 1000)
    /\ fin.app2 = P10

(***************************************************************************)
(* Claims about the catalog cache (checked under SpecCat).                 *)
(***************************************************************************)

\* C4 (as stated): whenever load_catalog or reload_catalog returns a catalog,
\* it is the file's current content, i.e. the content written by the most
\* recent modification (each modification changes the modification time).
Orig_C4_CatalogFresh ==
    (catret.op \in {"load", "reload"} /\ catret.ok /\ file.exists /\ file.valid)
        => catret.value = file.content

\* C4 (amended): reload_catalog always returns the file's current content;
\* load_catalog returns the current content whenever nothing was cached or
\* the file's modification time differs from the recorded one, and otherwise
\* returns the cached copy (also when a modification has brought the
\* modification time back to the recorded value).
Thm_C4_CatalogFresh ==
    (catret.ok /\ file.exists /\ file.valid) =>
        /\ catret.op = "reload" => catret.value = file.content
        /\ catret.op = "load" =>
              IF catret.pre_cache = None \/ catret.pre_mtime # file.mtime
              THEN catret.value = file.content
              ELSE catret.value = catret.pre_cache

Wit_C4_CatalogFresh ==
    /\ catret.op = "load"
    /\ catret.ok
    /\ catret.pre_cache # None
    /\ catret.pre_mtime # file.mtime
    /\ catret.pre_cache # file.content
    /\ catret.value = file.content

Unreadable(f) == ~f.exists \/ ~f.valid

\* C29: when reading the catalog file fails inside load_catalog (file
\* missing or not valid JSON) the error propagates to the caller and the
\* cached catalog and the recorded modification time are left as they were
\* before the call (for the call reload_catalog makes: as reload_catalog
\* cleared them); load_catalog never returns a cached catalog while the
\* file's modification time differs from the recorded one.
Thm_C29_FailedReadLeavesCache ==
    /\ catret.op = "load" =>
          /\ (catret.pre_cache = None \/ catret.pre_mtime # GetMtime(file))
                 /\ Unreadable(file) => ~catret.ok
          /\ ~catret.ok =>
                 /\ Unreadable(file)
                 /\ CATALOG_CACHE = catret.pre_cache
                 /\ CATALOG_MTIME = catret.pre_mtime
          /\ catret.ok /\ catret.pre_mtime # GetMtime(file) =>
                 /\ catret.value = file.content
                 /\ CATALOG_CACHE = file.content
                 /\ CATALOG_MTIME = GetMtime(file)
    /\ catret.op = "reload" =>
          /\ Unreadable(file) <=> ~catret.ok
          /\ ~catret.ok => CATALOG_CACHE = None /\ CATALOG_MTIME = None

\* A load failed on a rewritten, unreadable file while a catalog was cached:
\* the cache and the recorded time are still the earlier ones.
Wit_C29_FailedReadLeavesCache ==
    /\ catret.op = "load"
    /\ ~catret.ok
    /\ file.exists
    /\ ~file.valid
    /\ catret.pre_cache # None
    /\ CATALOG_CACHE = catret.pre_cache
    /\ CATALOG_MTIME = catret.pre_mtime
    /\ CATALOG_MTIME # file.mtime

(***************************************************************************)
(* Catalog.item_cost (src/core/catalog.py).                                *)
(*                                                                         *)
(* An item record of the catalog is absent, has no cost table, or has a    *)
(* cost table.  A cost table holds flat prices keyed by region and tiers   *)
(* keyed by finish or by fascia width ("w4", "w8", ...); a tier is absent, *)
(* is not a dict, or is a dict holding prices for some regions.  Stored    *)
(* prices are positive and differ from path to path, so that the price a   *)
(* lookup returns tells which path it read.  The falsy finish (None or     *)
(* the empty string) is ""; the falsy width (None or 0) is 0.              *)
(***************************************************************************)
Regions == {"Metro", "Mountains"}
Finishes == {"", "ColorPlus", "Primed"}
TierKeys == {"ColorPlus", "w4", "w8"}
CostKeys == TierKeys \cup {"Primed", "w12"}

NoTier == [kind |-> "absent", regions |-> {}]
TierShapes ==
    {NoTier, [kind |-> "junk", regions |-> {}]}
        \cup {[kind |-> "dict", regions |-> rs] : rs \in {{}, {"Metro"}, Regions}}

TierOf(rec, key) == IF key \in DOMAIN rec.tiers THEN rec.tiers[key] ELSE NoTier

RegionIdx(region) == IF region = "Metro" THEN 1 ELSE 2
KeyIdx(key) ==
    CASE key = "flat" -> 0
      [] key = "ColorPlus" -> 1
      [] key = "w4" -> 2
      [] key = "w8" -> 3
      [] OTHER -> 4
StoredPrice(key, region) == 10 * KeyIdx(key) + RegionIdx(region)

NoError == [kind |-> "none", names |-> {}]
Raise(kind, names) == [ok |-> FALSE, value |-> None, err |-> [kind |-> kind, names |-> names]]
Return(v) == [ok |-> TRUE, value |-> v, err |-> NoError]

FasciaKey(w) ==
    LET c == IF w < 4 THEN 4 ELSE IF w > 12 THEN 12 ELSE w
    IN  CASE c = 4 -> "w4" [] c = 8 -> "w8" [] c = 12 -> "w12" [] OTHER -> "w?"

\* item_cost with its last raise replaced by a default price of zero
item_cost_default(items, item, region, finish, fascia_width_in) ==
    IF item \notin DOMAIN items \/ items[item].kind = "absent"
    THEN Raise("unknown_item", {item})
    ELSE LET rec == items[item] IN
    IF rec.kind # "priced"
    THEN Raise("no_cost", {item})
    ELSE IF item = "fascia_12ft" /\ fascia_width_in # 0
    THEN LET key == FasciaKey(fascia_width_in)
             tier == TierOf(rec, key)
         IN  IF tier.kind # "dict" \/ region \notin tier.regions
             THEN Raise("missing_fascia", {"fascia", key, region})
             ELSE Return(StoredPrice(key, region))
    ELSE IF finish # "" /\ TierOf(rec, finish).kind # "absent"
    THEN LET tier == TierOf(rec, finish)
         IN  IF tier.kind # "dict" \/ region \notin tier.regions
             THEN Raise("missing_finish", {item, finish, region})
             ELSE Return(StoredPrice(finish, region))
    ELSE IF region \in rec.flat
    THEN Return(StoredPrice("flat", region))
    ELSE Return(0)

item_cost(items, item, region, finish, fascia_width_in) ==
    IF item \notin DOMAIN items \/ items[item].kind = "absent"
    THEN Raise("unknown_item", {item})
    ELSE LET rec == items[item] IN
    IF rec.kind # "priced"
    THEN Raise("no_cost", {item})
    ELSE IF item = "fascia_12ft" /\ fascia_width_in # 0
    THEN LET key == FasciaKey(fascia_width_in)
             tier == TierOf(rec, key)
         IN  IF tier.kind # "dict" \/ region \notin tier.regions
             THEN Raise("missing_fascia", {"fascia", key, region})
             ELSE Return(StoredPrice(key, region))
    ELSE IF finish # "" /\ TierOf(rec, finish).kind # "absent"
    THEN LET tier == TierOf(rec, finish)
         IN  IF tier.kind # "dict" \/ region \notin tier.regions
             THEN Raise("missing_finish", {item, finish, region})
             ELSE Return(StoredPrice(finish, region))
    ELSE IF region \in rec.flat
    THEN Return(StoredPrice("flat", region))
    ELSE Raise("missing_region", {item, region})

(***************************************************************************)
(* price_trade (src/trades/registry.py).  Quantities and catalog prices    *)
(* are whole numbers; the labor figure is an exact rational.               *)
(***************************************************************************)
Floor(x) == x[1] \div x[2]
Ceil(x) == -((-x[1]) \div x[2])
\* Python's round(x): to the nearest integer, ties to the even one
RoundHalfEven(x) ==
    LET f == Floor(x)
        twice == RSub(RMul(RInt(2), x), RInt(2 * f))     \* 2 * (x - f), in [0, 2)
    IN  IF RLt(twice, One) THEN f
        ELSE IF RLt(One, twice) THEN f + 1
        ELSE IF f % 2 = 0 THEN f ELSE f + 1
\* round(x, 2)
Round2(x) == Rat(RoundHalfEven(RMul(x, RInt(100))), 100)

\* _qty_from_expr: a digit literal, an attribute of outputs, or 0.0
qty_from_expr(expr, outputs) ==
    IF expr.src = "literal" THEN expr.n
    ELSE IF expr.src = "outputs"
    THEN IF expr.key \in DOMAIN outputs THEN outputs[expr.key] ELSE 0
    ELSE 0

\* Binding the call's keyword arguments to Catalog.item_cost's signature:
\* a keyword the signature does not declare raises TypeError before the
\* body runs.
ItemCostKeywords == {"finish", "fascia_width_in"}
CallItemCost(items, item, region, finish, fascia_width_in, keywords) ==
    IF ~(keywords \subseteq ItemCostKeywords)
    THEN Raise("type_error", keywords \ ItemCostKeywords)
    ELSE item_cost(items, item, region, finish, fascia_width_in)

UomOf(items, item) ==
    IF item \in DOMAIN items /\ items[item].kind # "absent" THEN items[item].uom ELSE ""

\* acc = [lis, mat_total, failed]; failed records the positions of the line
\* items whose catalog lookup raised (it is not part of TradeCost).
append_line(acc, ctx, item_key, qty, finish_keyed, fascia_keyed) ==
    IF qty <= 0 THEN acc
    ELSE
    LET res == CallItemCost(ctx.items, item_key, ctx.region,
                            IF finish_keyed THEN ctx.finish ELSE "",
                            IF fascia_keyed THEN ctx.fascia_w ELSE 0,
                            {"finish", "fascia_width_in", "surface"})
        unit_cost == IF res.ok THEN res.value ELSE 0
        ext == qty * unit_cost
        li == [name |-> item_key, qty |-> qty, uom |-> UomOf(ctx.items, item_key),
               unit_cost |-> unit_cost, ext_cost |-> ext]
    IN  [lis |-> Append(acc.lis, li),
         mat_total |-> acc.mat_total + ext,
         failed |-> IF res.ok THEN acc.failed ELSE acc.failed \cup {Len(acc.lis) + 1}]

IsBoardAndBatten(siding_type) ==
    siding_type \in {"board & batten", "board and batten", "board &amp; batten"}

\* str.strip().lower() on the siding types the model draws
Lower(siding_type) ==
    CASE siding_type = "Lap" -> "lap"
      [] siding_type = "Board & Batten" -> "board & batten"
      [] siding_type = "Shake" -> "shake"
      [] OTHER -> siding_type

TrimSizes == {"trim4_12ft", "trim6_12ft", "trim8_12ft", "trim12_12ft"}
TRIM_44_MAP(item) ==
    CASE item = "trim4_12ft" -> "trim44_4_12ft"
      [] item = "trim6_12ft" -> "trim44_6_12ft"
      [] item = "trim8_12ft" -> "trim44_8_12ft"
      [] item = "trim12_12ft" -> "trim44_12_12ft"

Max2(a, b) == IF a >= b THEN a ELSE b

\* WASTE_BASE_SIDING + WASTE_COMPLEXITY[complexity], in percent
WastePct(complexity) ==
    20 + (CASE complexity = "Med" -> 3 [] complexity = "High" -> 7 [] OTHER -> 0)

append_board_and_batten_materials(acc, ctx, inputs) ==
    LET base_sf == Max2(inputs.facades_sf, inputs.trim_siding_sf)
        sf_with_waste == Rat(base_sf * (100 + WastePct(inputs.complexity)), 100)
        panels == Ceil(RDiv(sf_with_waste, RInt(40)))
        battens == Max2(0, panels) * 3
        a1 == IF panels > 0
              THEN append_line(acc, ctx, "bb_panel_4x10", panels, TRUE, FALSE)
              ELSE acc
    IN  IF battens > 0
        THEN append_line(a1, ctx, "bb_batten_12ft", battens, TRUE, FALSE)
        ELSE a1

\* the loop body without the minimum of two pieces
include_step_unfloored(acc, ctx, inputs, outputs, inc) ==
    LET qty == qty_from_expr(inc.qty, outputs)
        st == Lower(inputs.siding_type)
    IN  IF qty = 0 THEN acc
        ELSE IF inc.item = "siding_sf" /\ st = "lap"
        THEN IF outputs.boards > 0
             THEN append_line(acc, ctx,
                      IF ctx.finish = "ColorPlus" THEN "plank_8_25_cm_colorplus"
                                                  ELSE "plank_8_25_cm_primed",
                      outputs.boards, FALSE, FALSE)
             ELSE acc
        ELSE IF inc.item = "siding_sf" /\ IsBoardAndBatten(st)
        THEN append_board_and_batten_materials(acc, ctx, inputs)
        ELSE IF IsBoardAndBatten(st) /\ inc.item \in TrimSizes
        THEN append_line(acc, ctx, TRIM_44_MAP(inc.item), qty, TRUE, FALSE)
        ELSE append_line(acc, ctx, inc.item, qty,
                         inc.finish_keyed, inc.fascia_width_keyed)

\* One pass of the "for inc in includes" loop body
include_step(acc, ctx, inputs, outputs, inc) ==
    LET qty == qty_from_expr(inc.qty, outputs)
        st == Lower(inputs.siding_type)
    IN  IF qty = 0 THEN acc
        ELSE IF inc.item = "siding_sf" /\ st = "lap"
        THEN IF outputs.boards > 0
             THEN append_line(acc, ctx,
                      IF ctx.finish = "ColorPlus" THEN "plank_8_25_cm_colorplus"
                                                  ELSE "plank_8_25_cm_primed",
                      outputs.boards, FALSE, FALSE)
             ELSE acc
        ELSE IF inc.item = "siding_sf" /\ IsBoardAndBatten(st)
        THEN append_board_and_batten_materials(acc, ctx, inputs)
        ELSE IF IsBoardAndBatten(st) /\ inc.item \in TrimSizes
        THEN append_line(acc, ctx, TRIM_44_MAP(inc.item), Max2(2, qty), TRUE, FALSE)
        ELSE append_line(acc, ctx, inc.item,
                         IF inc.item \in TrimSizes THEN Max2(2, qty) ELSE qty,
                         inc.finish_keyed, inc.fascia_width_keyed)

RECURSIVE includes_loop(_, _, _, _, _)
includes_loop(acc, ctx, inputs, outputs, includes) ==
    IF includes = <<>> THEN acc
    ELSE includes_loop(include_step(acc, ctx, inputs, outputs, Head(includes)),
                       ctx, inputs, outputs, Tail(includes))

RECURSIVE extras_loop(_, _, _, _)
extras_loop(acc, ctx, outputs, extras) ==
    IF extras = <<>> THEN acc
    ELSE LET qty == qty_from_expr(Head(extras).qty, outputs)
         IN  extras_loop(IF qty # 0
                         THEN append_line(acc, ctx, Head(extras).item, qty, FALSE, FALSE)
                         ELSE acc,
                         ctx, outputs, Tail(extras))

\* LABOR_RATES (src/engine.py), in cents per SF, which is dollars per square
LaborPsqBase(siding_type, region) ==
    LET stype == IF siding_type \in {"Lap", "Board & Batten", "Shake"}
                 THEN siding_type ELSE "Lap"
    IN  CASE stype = "Lap" ->
               (CASE region = "Metro" -> 335 [] region = "North CO" -> 350
                  [] region = "Mountains" -> 375 [] OTHER -> 335)
          [] stype = "Board & Batten" ->
               (CASE region = "Metro" -> 310 [] region = "North CO" -> 335
                  [] region = "Mountains" -> 350 [] OTHER -> 335)
          [] stype = "Shake" ->
               (CASE region \in {"Metro", "North CO", "Mountains"} -> 400 [] OTHER -> 335)

\* The labor passthrough and its fallback
labor_total(inputs, outputs) ==
    IF RLt(Zero, outputs.labor_cost) THEN Round2(outputs.labor_cost)
    ELSE
    LET base_sf == Max2(inputs.facades_sf, inputs.trim_siding_sf)
        total_sq == IF outputs.total_sq > 0 THEN RInt(outputs.total_sq)
                    ELSE IF base_sf > 0 THEN Round2(Rat(base_sf, 100))
                    ELSE Zero
        psq == LaborPsqBase(inputs.siding_type, inputs.region)
               + (IF inputs.demo_required THEN 0 ELSE -30)
               + 60 * Max2(0, inputs.extra_layers)
               + (IF inputs.substrate \in {"brick", "stucco"} THEN 150 ELSE 0)
    IN  Round2(Round2(RMul(RInt(psq), total_sq)))

NoAcc == [lis |-> <<>>, mat_total |-> 0, failed |-> {}]

\* price_trade: raises when load_catalog raises (the catalog file is not
\* readable); otherwise it always returns a TradeCost.
price_trade(trade, inputs, outputs, catalog) ==
    IF ~catalog.readable
    THEN [status |-> "raised", trade |-> trade, material_cost |-> 0,
          labor_cost |-> Zero, line_items |-> <<>>, failed |-> {}]
    ELSE
    LET ctx == [items |-> catalog.items, region |-> inputs.region,
                finish |-> inputs.finish, fascia_w |-> inputs.fascia_width_in]
        a1 == includes_loop(NoAcc, ctx, inputs, outputs, catalog.includes)
        a2 == IF inputs.finish = "ColorPlus"
              THEN extras_loop(a1, ctx, outputs, catalog.colorplus_extras)
              ELSE a1
    IN  [status |-> "returned", trade |-> trade, material_cost |-> a2.mat_total,
         labor_cost |-> labor_total(inputs, outputs), line_items |-> a2.lis,
         failed |-> a2.failed]

(***************************************************************************)
(* The costing state machine: one Catalog.item_cost call, or the pricing   *)
(* step of handle_pdf_drop, on inputs drawn by the initial state.          *)
(***************************************************************************)
MaxSf == 430
MaxQty == 3

AbsentItem == [kind |-> "absent", uom |-> "", flat |-> {}, tiers |-> [k \in TierKeys |-> NoTier]]
NoCostItem == [kind |-> "nocost", uom |-> "EA", flat |-> {}, tiers |-> [k \in TierKeys |-> NoTier]]
PricedItems ==
    [kind : {"priced"}, uom : {"EA"}, flat : {{}, {"Metro"}, Regions},
     tiers : [TierKeys -> TierShapes]]
ItemShapes == {AbsentItem, NoCostItem} \cup PricedItems

LookupItems == {"fascia_12ft", "wrap_roll"}
Widths == {0, 3, 8, 14}

NoResult == [ok |-> TRUE, value |-> None, err |-> NoError]
LookupIdle ==
    [op |-> "idle", items |-> [i \in LookupItems |-> AbsentItem], item |-> "wrap_roll",
     region |-> "Metro", finish |-> "", fascia_width_in |-> 0, res |-> NoResult]
LookupInputs ==
    {[op |-> "pending", items |-> [i \in LookupItems |-> rec], item |-> item,
      region |-> region, finish |-> finish, fascia_width_in |-> w, res |-> NoResult] :
        rec \in ItemShapes, item \in LookupItems, region \in Regions,
        finish \in Finishes, w \in Widths}

Literal(n) == [src |-> "literal", n |-> n, key |-> ""]
FromOutputs(key) == [src |-> "outputs", n |-> 0, key |-> key]
Include(item, qty, finish_keyed, fascia_width_keyed) ==
    [item |-> item, qty |-> qty, finish_keyed |-> finish_keyed,
     fascia_width_keyed |-> fascia_width_keyed]

SidingIncludes ==
    << Include("siding_sf", FromOutputs("total_sf"), TRUE, FALSE),
       Include("wrap_roll", FromOutputs("wrap_rolls"), FALSE, FALSE),
       Include("fascia_12ft", FromOutputs("fascia_pieces_12ft"), FALSE, TRUE),
       Include("trim4_12ft", FromOutputs("trim4_pieces_12ft"), TRUE, FALSE) >>
SidingExtras == << Include("touchup_kit", Literal(1), FALSE, FALSE) >>
AreaExtras == << Include("siding_sf", FromOutputs("total_sf"), FALSE, FALSE) >>

AsmItems ==
    {"siding_sf", "wrap_roll", "fascia_12ft", "trim4_12ft", "trim44_4_12ft",
     "plank_8_25_cm_colorplus", "plank_8_25_cm_primed", "bb_panel_4x10",
     "bb_batten_12ft", "touchup_kit"}

FullItem ==
    [kind |-> "priced", uom |-> "EA", flat |-> Regions,
     tiers |-> [k \in TierKeys |-> [kind |-> "dict", regions |-> Regions]]]
MetroOnlyItem ==
    [kind |-> "priced", uom |-> "EA", flat |-> {"Metro"},
     tiers |-> [k \in TierKeys |-> NoTier]]

HoleItems ==
    {"wrap_roll", "fascia_12ft", "trim44_4_12ft", "bb_panel_4x10",
     "plank_8_25_cm_primed", "touchup_kit"}
PricedCatalogs ==
    {[readable |-> r, items |-> [i \in AsmItems |-> FullItem],
      includes |-> inc, colorplus_extras |-> SidingExtras] :
        r \in BOOLEAN, inc \in {SidingIncludes, <<>>}}
    \cup
    {[readable |-> TRUE, items |-> [i \in AsmItems |-> FullItem],
      includes |-> SidingIncludes, colorplus_extras |-> AreaExtras]}
    \cup
    {[readable |-> TRUE, items |-> items, includes |-> SidingIncludes,
      colorplus_extras |-> SidingExtras] :
        items \in {[i \in AsmItems |-> MetroOnlyItem]}
                  \cup {[i \in AsmItems |-> IF i = hole THEN AbsentItem ELSE FullItem] :
                            hole \in HoleItems}}

JobInputsChoices ==
    [region : Regions, finish : {"ColorPlus", "Primed"}, fascia_width_in : {8},
     siding_type : {"Lap", "Board & Batten", "Shake"},
     facades_sf : {0, MaxSf}, trim_siding_sf : {0}, complexity : {"Low", "High"},
     demo_required : {TRUE}, extra_layers : {0}, substrate : {"wood"}]
JobOutputsChoices ==
    [total_sf : {0, MaxSf}, total_sq : {0}, boards : {0, MaxQty}, wrap_rolls : {0, 1},
     fascia_pieces_12ft : {0, 2}, trim4_pieces_12ft : {0, 1, MaxQty},
     labor_cost : {Zero, RInt(500)}]

NoTradeCost ==
    [status |-> "none", trade |-> "", material_cost |-> 0, labor_cost |-> Zero,
     line_items |-> <<>>, failed |-> {}]
PricedIdle ==
    [op |-> "idle",
     inputs |-> CHOOSE i \in JobInputsChoices : TRUE,
     outputs |-> CHOOSE o \in JobOutputsChoices : TRUE,
     catalog |-> CHOOSE c \in PricedCatalogs : TRUE,
     res |-> NoTradeCost, banner |-> FALSE]
PricedInputs ==
    {p \in [op : {"pending"}, inputs : JobInputsChoices, outputs : JobOutputsChoices,
            catalog : PricedCatalogs, res : {NoTradeCost}, banner : {FALSE}] :
        p.outputs.total_sf = p.inputs.facades_sf}

CostRest == UNCHANGED <<finVars, catVars, uiVars, auxVars>>

\* One call of Catalog.item_cost
ItemCost ==
    /\ lookup.op = "pending"
    /\ lookup' = [lookup EXCEPT
                    !.op = "item_cost",
                    !.res = item_cost(lookup.items, lookup.item, lookup.region,
                                      lookup.finish, lookup.fascia_width_in)]
    /\ UNCHANGED priced
    /\ CostRest

\* The pricing step of handle_pdf_drop: price_trade inside try/except; an
\* exception shows the warning banner and ends the handler.
PriceTrade ==
    /\ priced.op = "pending"
    /\ LET res == price_trade("Siding", priced.inputs, priced.outputs, priced.catalog)
       IN  priced' = [priced EXCEPT !.op = "price_trade", !.res = res,
                                    !.banner = (res.status = "raised")]
    /\ UNCHANGED lookup
    /\ CostRest

CostInit ==
    /\ \/ lookup \in LookupInputs /\ priced = PricedIdle
       \/ lookup = LookupIdle /\ priced \in PricedInputs
    /\ FinUnused
    /\ CatUnused
    /\ UiUnused

CostNext == ItemCost \/ PriceTrade

SpecCost == CostInit /\ [][CostNext]_vars

(***************************************************************************)
(* Claims about the catalog price lookup and trade pricing.                *)
(***************************************************************************)
\* The price paths the catalog does not hold, case by case
AbsentPricePath(items, item, region, finish, w) ==
    LET rec == items[item]
        fascia == item = "fascia_12ft" /\ w # 0
        finished == ~fascia /\ finish # "" /\ TierOf(rec, finish).kind # "absent"
        Missing(tier) == tier.kind # "dict" \/ region \notin tier.regions
    IN  \/ rec.kind = "absent"
        \/ rec.kind = "nocost"
        \/ rec.kind = "priced" /\ fascia /\ Missing(TierOf(rec, FasciaKey(w)))
        \/ rec.kind = "priced" /\ finished /\ Missing(TierOf(rec, finish))
        \/ rec.kind = "priced" /\ ~fascia /\ ~finished /\ region \notin rec.flat

IdentifiesItem(err, item) ==
    item \in err.names \/ (item = "fascia_12ft" /\ "fascia" \in err.names)
IdentifiesRegion(err, region) == region \in err.names

LookupAbsent ==
    AbsentPricePath(lookup.items, lookup.item, lookup.region, lookup.finish,
                    lookup.fascia_width_in)

HasNoPrice(items, name) == name \notin DOMAIN items \/ items[name].kind # "priced"

\* C6 as stated: when the catalog has no price for an item priced with a
\* positive quantity, price_trade ends in a reported error and returns no
\* TradeCost holding that item at a unit cost of zero.
Orig_C6_NoZeroSubstitution ==
    (priced.op = "price_trade" /\ priced.catalog.readable) =>
        \A i \in DOMAIN priced.res.line_items :
            ~ /\ HasNoPrice(priced.catalog.items, priced.res.line_items[i].name)
              /\ priced.res.line_items[i].qty > 0
              /\ priced.res.line_items[i].unit_cost = 0

(***************************************************************************)
(* The main window (src/app.py, class Main): the recompute guard, the      *)
(* Costs-grid lock protocol and the rollup of recompute_pricing.           *)
(*                                                                         *)
(* A job is one material line (unit cost, catalog quantity) and a labor    *)
(* figure.  Handlers run from the event loop when no handler is in flight; *)
(* the body of recompute_pricing is in flight from the guard up to the end *)
(* of its repaint, and events delivered during the repaint reach           *)
(* recompute_pricing as nested calls.                                      *)
(***************************************************************************)
MaxEdits == 3       \* handler events per behaviour
MaxNested == 2      \* nested recompute requests per behaviour

GMax == Pct(GMaxPct)
Clamp(x, lo, hi) == RMax(lo, RMin(hi, x))
Round4(x) == Rat(RoundHalfEven(RMul(x, RInt(10000))), 10000)
FmtMoney(v) == Round2(v)        \* f"${v:,.2f}", read back by _num_money
FmtPct(v) == Round4(v)          \* f"{v:.2%}", read back by _num_pct

NoJob == [id |-> 0, unit |-> 0, qty |-> 0, labor |-> 0]
Jobs ==
    {[id |-> 1, unit |-> 10, qty |-> 10, labor |-> 50],
     [id |-> 2, unit |-> 20, qty |-> 2, labor |-> 0]}

NoOverride == [set |-> FALSE, v |-> Zero]       \* override_target_gm = None
Override(g) == [set |-> TRUE, v |-> g]

NoCosts ==
    [material_cost |-> Zero, labor_cost |-> Zero, cogs |-> Zero, overhead_rate |-> Zero,
     target_gm |-> Zero, overhead_dollars |-> Zero, revenue_target |-> Zero,
     projected_profit |-> Zero, commission_total |-> Zero]

\* The rollup with the lock ignored: the margin always comes from the grid
rollup_gm_only(u, override_target_gm) ==
    LET material_cost == Round2(RInt(u.qty * u.job.unit))
        labor_cost == IF u.overrides.has_labor THEN u.overrides.labor
                      ELSE RInt(u.job.labor)
        C == RAdd(material_cost, labor_cost)
        gm_target == IF override_target_gm.set THEN override_target_gm.v ELSE u.grid.gm
        g == Clamp(gm_target, Zero, GMax)
        revenue_now == Round2(RDiv(C, MaxEps(RSub(One, g))))
        overhead_dollars == Round2(RMul(u.grid.oh, revenue_now))
        commission_default == Round2(RMul(revenue_now, commission_rate_from_gross_gm(g)))
        commission_now == IF u.overrides.has_comm THEN u.overrides.comm
                          ELSE commission_default
    IN  [material_cost |-> material_cost, labor_cost |-> labor_cost, cogs |-> C,
         overhead_rate |-> u.grid.oh, target_gm |-> g,
         overhead_dollars |-> overhead_dollars, revenue_target |-> revenue_now,
         projected_profit |->
             Round2(RSub(RSub(RSub(revenue_now, C), overhead_dollars), commission_now)),
         commission_total |-> Round2(commission_now)]

\* Steps 1-5 of recompute_pricing._do: the costs dict for the current job,
\* materials quantity, overrides, grid controls and lock
rollup(u, override_target_gm) ==
    LET material_cost == Round2(RInt(u.qty * u.job.unit))
        labor_cost == IF u.overrides.has_labor THEN u.overrides.labor
                      ELSE RInt(u.job.labor)
        C == RAdd(material_cost, labor_cost)
        rev_from_grid == u.grid.rev
        gm_target ==
            IF override_target_gm.set THEN override_target_gm.v
            ELSE IF u.costs_lock = "revenue" /\ RLt(Zero, rev_from_grid)
            THEN Clamp(RSub(One, RDiv(C, MaxEps(rev_from_grid))), Zero, GMax)
            ELSE u.grid.gm
        g == Clamp(gm_target, Zero, GMax)
        revenue_now == Round2(RDiv(C, MaxEps(RSub(One, g))))
        overhead_dollars == Round2(RMul(u.grid.oh, revenue_now))
        commission_default == Round2(RMul(revenue_now, commission_rate_from_gross_gm(g)))
        commission_now == IF u.overrides.has_comm THEN u.overrides.comm
                          ELSE commission_default
    IN  [material_cost |-> material_cost, labor_cost |-> labor_cost, cogs |-> C,
         overhead_rate |-> u.grid.oh, target_gm |-> g,
         overhead_dollars |-> overhead_dollars, revenue_target |-> revenue_now,
         projected_profit |->
             Round2(RSub(RSub(RSub(revenue_now, C), overhead_dollars), commission_now)),
         commission_total |-> Round2(commission_now)]

\* populate_costs_table: the Value column as formatted text
GridOf(costs) ==
    [mat |-> FmtMoney(costs.material_cost), labor |-> FmtMoney(costs.labor_cost),
     oh |-> FmtPct(costs.overhead_rate), gm |-> FmtPct(costs.target_gm),
     rev |-> FmtMoney(costs.revenue_target), profit |-> FmtMoney(costs.projected_profit),
     comm |-> FmtMoney(costs.commission_total)]

\* Steps 6-7 of _do and its last line: baseline guard, repaint, flag reset
Paint(u, costs, focus) ==
    [u EXCEPT !.grid = GridOf(costs),
              !.rows = TRUE,
              !.costs_baseline = IF u.suppress \/ focus THEN @ ELSE costs,
              !.suppress = FALSE]

\* a guard that admits every call
GuardAdmitsAlways(recomputing) == TRUE

\* _with_recompute_guard: the call runs fn only when the flag is down
GuardAdmits(recomputing) == ~recomputing

\* a guard that leaves the flag as the body left it
GuardExitKept(recomputing) == recomputing

\* _with_recompute_guard, the finally clause: the flag is dropped however
\* fn was left (return, early return or exception)
GuardExit(recomputing) == FALSE

\* recompute_pricing called with the window in state u.  The call returns at
\* once (dropped by the guard, early return of _do without a job, or
\* price_trade raising), or it leaves the body in flight at its repaint.
recompute_pricing(u, override_target_gm, frame, price_ok) ==
    LET u1 == [u EXCEPT !.requested = @ + 1] IN
    IF ~GuardAdmits(u1.recomputing)
    THEN [u1 EXCEPT !.dropped = @ + 1]
    ELSE IF u1.job.id = 0 \/ ~price_ok
    THEN [u1 EXCEPT !.started = @ + 1, !.finished = @ + 1, !.failed = @ + 1,
                    !.recomputing = GuardExit(TRUE)]
    ELSE [u1 EXCEPT !.started = @ + 1,
                    !.recomputing = TRUE,
                    !.unread = FALSE,
                    !.pc = "painting",
                    !.frame = frame,
                    !.costs_lock = IF override_target_gm.set THEN "gm" ELSE @,
                    !.last_costs = rollup(u1, override_target_gm),
                    !.used = [lock |-> IF override_target_gm.set THEN "gm"
                                       ELSE u1.costs_lock,
                              rev_from_grid |-> u1.grid.rev]]

\* the finally clause of on_costs_cell_changed, once recompute_pricing is back
ExitHandler(u) == IF u.pc = "painting" THEN u ELSE [u EXCEPT !.in_costs_edit = FALSE]

EditableKeys ==
    {"Labor Cost", "Target GM", "Revenue Target", "Projected Profit", "Commission Total"}

\* _pct_to_float on a number typed without a percent sign
PctToFloat(v) == IF RLt(One, v) THEN RDiv(v, RInt(100)) ELSE v

\* the text typed into the Value cell of the row, as the grid readers see it
SetCell(u, key, raw) ==
    CASE key = "Labor Cost" -> [u EXCEPT !.grid.labor = raw]
      [] key = "Target GM" -> [u EXCEPT !.grid.gm = PctToFloat(raw)]
      [] key = "Revenue Target" -> [u EXCEPT !.grid.rev = raw]
      [] key = "Projected Profit" -> [u EXCEPT !.grid.profit = raw]
      [] key = "Commission Total" -> [u EXCEPT !.grid.comm = raw]
      [] OTHER -> u

\* an edit handler that leaves the lock as it was
CostsLockKept(key, lock) == lock

\* self._costs_lock after the branch of on_costs_cell_changed taken for key
CostsLockAfterEdit(key, lock) ==
    CASE key = "Labor Cost" -> "gm"
      [] key \in {"Gross Margin", "Target GM"} -> "gm"
      [] key = "Revenue Target" -> "revenue"
      [] key = "Projected Profit" -> "revenue"
      [] key = "Commission Total" -> "revenue"
      [] OTHER -> lock

on_costs_cell_changed(u, key, raw, price_ok) ==
    IF u.in_costs_edit THEN u
    ELSE
    LET cogs_now == RAdd(u.grid.mat, u.grid.labor)
        oh_rate == u.grid.oh
        e == [u EXCEPT !.in_costs_edit = TRUE,
                       !.suppress = TRUE,
                       !.costs_lock = CostsLockAfterEdit(key, @)]
        edited ==
            CASE key = "Labor Cost" ->
                    [e EXCEPT !.overrides.has_labor = TRUE,
                              !.overrides.labor = RMax(Zero, raw)]
              [] key = "Projected Profit" ->
                    [e EXCEPT !.grid.rev =
                        FmtMoney(solve_revenue_from_profit(raw, cogs_now, oh_rate))]
              [] key = "Commission Total" ->
                    [e EXCEPT !.overrides.has_comm = TRUE,
                              !.overrides.comm = RMax(Zero, raw),
                              !.grid.rev =
                                  FmtMoney(solve_revenue_from_commission(raw, cogs_now))]
              [] OTHER -> e
        override == IF key \in {"Gross Margin", "Target GM"}
                    THEN Override(PctToFloat(raw)) ELSE NoOverride
    IN  ExitHandler(recompute_pricing(edited, override, "costs_edit", price_ok))

\* handle_pdf_drop's initial rollup: overhead 0.20, target margin 0.35
initial_rollup(job) ==
    LET material_cost == Round2(RInt(job.qty * job.unit))
        labor_cost == RInt(job.labor)
        C == RAdd(material_cost, labor_cost)
        target_gm == Pct(35)
        rev == Round2(RDiv(C, MaxEps(RSub(One, target_gm))))
        commission_dollars == Round2(RMul(rev, commission_rate_from_gross_gm(target_gm)))
        overhead_dollars == Round2(RMul(P20, rev))
    IN  [material_cost |-> material_cost, labor_cost |-> labor_cost, cogs |-> C,
         overhead_rate |-> P20, target_gm |-> target_gm,
         overhead_dollars |-> overhead_dollars, revenue_target |-> rev,
         projected_profit |->
             Round2(RSub(RSub(RSub(rev, C), overhead_dollars), commission_dollars)),
         commission_total |-> commission_dollars]

NoOverrides == [has_labor |-> FALSE, labor |-> Zero, has_comm |-> FALSE, comm |-> Zero]

handle_pdf_drop(u, job, price_ok) ==
    LET u1 == [u EXCEPT !.overrides = NoOverrides, !.job = job] IN
    IF ~price_ok THEN [u1 EXCEPT !.banner = TRUE]
    ELSE [u1 EXCEPT !.qty = job.qty,
                    !.unread = FALSE,
                    !.costs_baseline = initial_rollup(job),
                    !.grid = GridOf(initial_rollup(job)),
                    !.rows = TRUE]

LaborTyped == {RInt(0), RInt(80)}
GmTyped == {Rat(1, 4), RInt(35), RInt(99)}
RevTyped == {RInt(0), RInt(50), RInt(200), RInt(5000)}
ProfitTyped == {RInt(-10), RInt(30)}
CommTyped == {RInt(0), RInt(25)}
Typed(key) ==
    CASE key = "Labor Cost" -> LaborTyped
      [] key = "Target GM" -> GmTyped
      [] key = "Revenue Target" -> RevTyped
      [] key = "Projected Profit" -> ProfitTyped
      [] key = "Commission Total" -> CommTyped
QtyTyped == {0, 5}

UiStart ==
    [job |-> NoJob, qty |-> 0, rows |-> FALSE, banner |-> FALSE,
     grid |-> GridOf(NoCosts), costs_baseline |-> NoCosts, last_costs |-> NoCosts,
     overrides |-> NoOverrides,
     costs_lock |-> "gm", recomputing |-> FALSE, in_costs_edit |-> FALSE,
     suppress |-> FALSE, mats_recompute_scheduled |-> FALSE,
     pc |-> "idle", frame |-> "none",
     used |-> [lock |-> "gm", rev_from_grid |-> Zero],
     last_edit |-> "none", edits |-> 0, nested |-> 0,
     requested |-> 0, started |-> 0, dropped |-> 0, finished |-> 0, overlap |-> FALSE,
     failed |-> 0, timers |-> 0, unread |-> FALSE, lost |-> FALSE]

UiRest == UNCHANGED <<finVars, catVars, costVars, auxVars>>
UiIdle == ui.pc = "idle" /\ ui.edits < MaxEdits

\* a handler that starts a timer at every edit
schedule_recompute_always(u) ==
    [u EXCEPT !.mats_recompute_scheduled = TRUE, !.timers = @ + 1]

\* the tail of both Materials handlers: one single-shot timer unless one is
\* already scheduled
schedule_recompute(u) ==
    IF u.mats_recompute_scheduled THEN u
    ELSE [u EXCEPT !.mats_recompute_scheduled = TRUE, !.timers = @ + 1]

\* _recompute_after_material_edit: the flag is cleared first, the recompute
\* runs with the baseline reset suppressed, and whatever it raises is
\* swallowed
recompute_after_material_edit(u, price_ok) ==
    LET r == recompute_pricing([u EXCEPT !.mats_recompute_scheduled = FALSE,
                                         !.timers = @ - 1,
                                         !.suppress = TRUE],
                               NoOverride, "timer", price_ok)
    IN  [r EXCEPT !.lost = r.unread]

\* A report is dropped on the window
HandlePdfDrop ==
    /\ UiIdle
    /\ \E job \in Jobs, price_ok \in BOOLEAN :
          ui' = handle_pdf_drop([ui EXCEPT !.edits = @ + 1], job, price_ok)
    /\ UiRest

\* The user commits an edit of an editable Value cell of the Costs grid
OnCostsCellChanged ==
    /\ UiIdle
    /\ ui.rows
    /\ \E key \in EditableKeys, price_ok \in BOOLEAN :
          \E raw \in Typed(key) :
              ui' = on_costs_cell_changed(
                        SetCell([ui EXCEPT !.edits = @ + 1, !.last_edit = key], key, raw),
                        key, raw, price_ok)
    /\ UiRest

\* _on_materials_item_changed: a quantity edit schedules one recompute
OnMaterialsItemChanged ==
    /\ UiIdle
    /\ ui.rows
    /\ \E q \in QtyTyped :
          ui' = schedule_recompute([ui EXCEPT !.edits = @ + 1, !.qty = q,
                                              !.unread = TRUE])
    /\ UiRest

\* _on_materials_delta_clicked: the quantity goes back to its baseline
OnMaterialsDeltaClicked ==
    /\ UiIdle
    /\ ui.rows
    /\ ui' = schedule_recompute([ui EXCEPT !.edits = @ + 1, !.qty = ui.job.qty,
                                           !.unread = TRUE])
    /\ UiRest

\* The zero-delay timer fires _recompute_after_material_edit
RecomputeAfterMaterialEdit ==
    /\ ui.pc = "idle"
    /\ ui.timers > 0
    /\ \E price_ok \in BOOLEAN :
          ui' = recompute_after_material_edit(ui, price_ok)
    /\ UiRest

\* An event delivered while the body repaints calls recompute_pricing.  A
\* call the guard admits runs a second body inside the first one.
NestedRecompute ==
    /\ ui.pc = "painting"
    /\ ui.nested < MaxNested
    /\ ui' = IF ~GuardAdmits(ui.recomputing)
             THEN [ui EXCEPT !.nested = @ + 1, !.requested = @ + 1, !.dropped = @ + 1]
             ELSE [Paint(ui, rollup(ui, NoOverride), FALSE) EXCEPT
                      !.nested = @ + 1, !.requested = @ + 1, !.started = @ + 1,
                      !.finished = @ + 1, !.overlap = TRUE,
                      !.recomputing = GuardExit(TRUE)]
    /\ UiRest

\* The body in flight repaints and returns through the guard's finally and
\* the handler's finally
FinishRecompute ==
    /\ ui.pc = "painting"
    /\ \E focus \in BOOLEAN :
          ui' = [Paint(ui, ui.last_costs, focus) EXCEPT
                    !.recomputing = GuardExit(@), !.in_costs_edit = FALSE,
                    !.pc = "idle", !.frame = "none", !.finished = @ + 1]
    /\ UiRest

\* on_reload_catalog: the cache is dropped and the job is priced again, a
\* recompute no user edit asked for
OnReloadCatalog ==
    /\ UiIdle
    /\ ui.rows
    /\ \E price_ok \in BOOLEAN :
          ui' = recompute_pricing([ui EXCEPT !.edits = @ + 1], NoOverride, "reload",
                                  price_ok)
    /\ UiRest

UiInit ==
    /\ ui = UiStart
    /\ FinUnused
    /\ CatUnused
    /\ CostUnused
    /\ roll = None /\ saved = None /\ det = None /\ hover = None /\ coil = None /\ est = None /\ units = None

UiNext ==
    \/ HandlePdfDrop
    \/ OnCostsCellChanged
    \/ OnMaterialsItemChanged
    \/ OnMaterialsDeltaClicked
    \/ RecomputeAfterMaterialEdit
    \/ NestedRecompute
    \/ FinishRecompute
    \/ OnReloadCatalog

SpecUI == UiInit /\ [][UiNext]_vars

\* The event loop delivers a single-shot timer once it is due, and a body in
\* flight runs to its end (weak fairness of FinishRecompute, written with its
\* enabling condition, the body being in flight)
SpecUIFair ==
    /\ UiInit
    /\ [][UiNext]_vars
    /\ WF_vars(RecomputeAfterMaterialEdit)
    /\ ([]<>(ui.pc # "painting") \/ []<><<FinishRecompute>>_vars)

(***************************************************************************)
(* Claims about the recompute guard and the lock protocol.                 *)
(***************************************************************************)
\* C1: while the body of recompute_pricing is in flight a nested call
\* returns without executing the body and changes nothing (it is counted as
\* dropped, not queued); a body starts only when none is in flight, and only
\* on behalf of a request made and admitted in that very step, so a dropped
\* request is never run later.
Thm_C1_NestedRecomputeDropped ==
    [][ /\ ui'.started > ui.started =>
              /\ ui.pc = "idle"
              /\ ~ui.recomputing
              /\ ui'.started = ui.started + 1
              /\ ui'.requested = ui.requested + 1
              /\ ui'.dropped = ui.dropped
        /\ (ui.pc = "painting" /\ ui'.requested > ui.requested) =>
              ui' = [ui EXCEPT !.requested = @ + 1, !.dropped = @ + 1, !.nested = @ + 1]
        /\ ui'.pc = "painting" => ui'.recomputing
        /\ ~ui'.overlap
        /\ ui'.started + ui'.dropped = ui'.requested
      ]_vars

\* A nested request was dropped and the body it interrupted has finished.
Wit_C1_NestedRecomputeDropped ==
    /\ ui.dropped > 0
    /\ ui.pc = "idle"
    /\ ui.started > 0
    /\ ui.finished = ui.started
    /\ ~ui.recomputing
    /\ ui.rows

RevenueKeys == {"Revenue Target", "Projected Profit", "Commission Total"}

RevenueLocked == ui.used.lock = "revenue" /\ RLt(Zero, ui.used.rev_from_grid)

\* C3 as stated: under the revenue lock, for every positive Revenue Target R
\* in the grid the recompute yields revenue_target = R and
\* target_gm = 1 - COGS/R.
Orig_C3_RevenueLockKeepsRevenue ==
    RevenueLocked =>
        /\ ui.last_costs.revenue_target = ui.used.rev_from_grid
        /\ ui.last_costs.target_gm =
              RSub(One, RDiv(ui.last_costs.cogs, ui.used.rev_from_grid))

\* C3, amended: under the revenue lock with a positive Revenue Target R in
\* the grid, the recompute yields revenue_target = R and
\* target_gm = 1 - COGS/R when 0 < COGS <= R <= 20 * COGS; for R < COGS the
\* margin is 0 and revenue_target is COGS; for R > 20 * COGS (also when
\* COGS = 0) the margin is 0.95 and revenue_target is 20 * COGS.
Thm_C3_RevenueLockKeepsRevenue ==
    RevenueLocked =>
        LET R == ui.used.rev_from_grid
            C == ui.last_costs.cogs
        IN  IF RLt(R, C)
            THEN ui.last_costs.target_gm = Zero /\ ui.last_costs.revenue_target = C
            ELSE IF RLt(RMul(RInt(20), C), R)
            THEN /\ ui.last_costs.target_gm = GMax
                 /\ ui.last_costs.revenue_target = RMul(RInt(20), C)
            ELSE /\ ui.last_costs.revenue_target = R
                 /\ ui.last_costs.target_gm = RSub(One, RDiv(C, R))

\* A Revenue Target of 200 typed over a COGS of 150: revenue stays 200 and
\* the margin becomes 25%.
Wit_C3_RevenueLockKeepsRevenue ==
    /\ RevenueLocked
    /\ ui.last_edit = "Revenue Target"
    /\ ui.used.rev_from_grid = RInt(200)
    /\ ui.last_costs.cogs = RInt(150)
    /\ ui.last_costs.revenue_target = RInt(200)
    /\ ui.last_costs.target_gm = Rat(1, 4)
    /\ ui.grid.gm = Pct(35)

(***************************************************************************)
(* The four financial rollups side by side: the initial rollup of          *)
(* handle_pdf_drop, recompute_pricing, and core/pricing.py's               *)
(* compute_rollup_for_ui and summarize_job_costs, each applied to a cost   *)
(* C, an overhead rate r and a target margin g.                            *)
(***************************************************************************)
Eps6Inv == 1000000              \* core/pricing.py summarize_job_costs: eps = 1e-6
LeEps6(x) == x[1] <= 0 \/ (x[2] \div x[1]) >= Eps6Inv       \* x <= 1e-6

RollGPcts == {5 * k : k \in 0 .. 15}    \* target margins, in hundredths
RollOverheadPcts == {0, 10, 20}         \* overhead rates, in hundredths

NoRollup == [revenue |-> Zero, overhead |-> Zero, commission |-> Zero, profit |-> Zero]

\* the four money figures of a costs dict
FiguresOf(costs) ==
    [revenue |-> costs.revenue_target, overhead |-> costs.overhead_dollars,
     commission |-> costs.commission_total, profit |-> costs.projected_profit]

\* compute_rollup_for_ui(cogs_total=C, target_gm=tgt, overhead_rate=ovr)
compute_rollup_for_ui(C, tgt, ovr) ==
    LET denom == MaxEps(RSub(One, RAdd(ovr, tgt)))
        revenue == Round2(RDiv(C, denom))
        gm_actual == tgt
        base_rate == IF RLt(gm_actual, P30)
                     THEN RMin(RMax(RSub(gm_actual, P20), Zero), P10)
                     ELSE P10
        bonus_rate == IF RLt(gm_actual, P30) THEN Zero
                      ELSE RDiv(RMax(RSub(gm_actual, P30), Zero), RInt(3))
        commission_total == Round2(RMul(RAdd(base_rate, bonus_rate), revenue))
        overhead_dollars == Round2(RMul(ovr, revenue))
    IN  [cogs |-> Round2(C), overhead_rate |-> ovr, target_gm |-> tgt,
         revenue_target |-> revenue, overhead_dollars |-> overhead_dollars,
         projected_profit |->
             Round2(RSub(RSub(RSub(revenue, C), overhead_dollars), commission_total)),
         commission_total |-> commission_total]

\* summarize_job_costs(trade_cost, trade, overhead_rate=ovr, target_gm=tgt):
\* the JobCost fields and the CommissionResult total; overhead dollars are
\* the ovr * revenue the function subtracts
summarize_job_costs(material_cost, labor_cost, ovr, tgt) ==
    LET cogs == RAdd(material_cost, labor_cost)
        denom == RSub(RSub(One, ovr), tgt)
        revenue == IF RLt(Zero, denom) THEN RDiv(cogs, denom) ELSE cogs
        profit == RSub(RSub(revenue, cogs), RMul(ovr, revenue))
        gm_dollars == RSub(revenue, RAdd(cogs, RMul(ovr, revenue)))
        gm_actual == IF RLt(Zero, revenue) THEN RDiv(gm_dollars, revenue) ELSE Zero
        low == LeEps6(RSub(gm_actual, P20))                 \* gm <= 0.20 + eps
        ramp == ~LeEps6(RSub(P30, gm_actual))               \* gm <  0.30 - eps
        commission_base_rate ==
            IF low THEN Zero
            ELSE IF ramp THEN RMin(RMax(RSub(gm_actual, P20), Zero), P10)
            ELSE P10
        commission_bonus_rate ==
            IF low \/ ramp THEN Zero
            ELSE RDiv(RMax(RSub(gm_actual, P30), Zero), RInt(3))
        commission_total ==
            RMax(Zero, RAdd(RMul(commission_base_rate, revenue),
                            RMul(commission_bonus_rate, revenue)))
    IN  [cogs |-> Round2(cogs), overhead_rate |-> ovr, target_gm |-> tgt,
         revenue_target |-> Round2(revenue), overhead_dollars |-> RMul(ovr, revenue),
         projected_profit |-> Round2(profit), gm_actual |-> gm_actual,
         commission_total |-> commission_total]

RollIdle == [op |-> "none", C |-> 0, g |-> Zero, r |-> Zero, res |-> NoRollup]

RollInputs ==
    {[RollIdle EXCEPT !.C = C, !.g = Pct(g), !.r = Pct(r)] :
        C \in Costs, g \in RollGPcts, r \in RollOverheadPcts}

RollRest == UNCHANGED <<finVars, catVars, costVars, uiVars, saved, det, hover, coil,
                        est, units>>

\* the window as recompute_pricing finds it: a one-line job of cost C, the
\* grid showing overhead r and margin g, no overrides, the margin locked
WindowFor(C, g, r) ==
    [qty |-> 1, job |-> [id |-> 1, unit |-> C, qty |-> 1, labor |-> 0],
     overrides |-> NoOverrides, costs_lock |-> "gm",
     grid |-> [oh |-> r, gm |-> g, rev |-> Zero]]

\* handle_pdf_drop's initial rollup: overhead 0.20 and margin 0.35 are fixed
RollPdfDrop ==
    /\ roll.op = "none"
    /\ roll' = [roll EXCEPT !.op = "handle_pdf_drop", !.g = Pct(35), !.r = P20,
                   !.res = FiguresOf(initial_rollup([id |-> 1, unit |-> roll.C,
                                                     qty |-> 1, labor |-> 0]))]
    /\ RollRest

RollRecompute ==
    /\ roll.op = "none"
    /\ roll' = [roll EXCEPT !.op = "recompute_pricing",
                   !.res = FiguresOf(rollup(WindowFor(roll.C, roll.g, roll.r),
                                            NoOverride))]
    /\ RollRest

RollForUi ==
    /\ roll.op = "none"
    /\ roll' = [roll EXCEPT !.op = "compute_rollup_for_ui",
                   !.res = FiguresOf(compute_rollup_for_ui(RInt(roll.C), roll.g, roll.r))]
    /\ RollRest

RollSummarize ==
    /\ roll.op = "none"
    /\ roll' = [roll EXCEPT !.op = "summarize_job_costs",
                   !.res = FiguresOf(summarize_job_costs(RInt(roll.C), Zero,
                                                         roll.r, roll.g))]
    /\ RollRest

RollInit ==
    /\ roll \in RollInputs
    /\ FinUnused
    /\ CatUnused
    /\ CostUnused
    /\ ui = None /\ saved = None /\ det = None /\ hover = None /\ coil = None /\ est = None /\ units = None

RollNext ==
    \/ RollPdfDrop
    \/ RollRecompute
    \/ RollForUi
    \/ RollSummarize

SpecRoll == RollInit /\ [][RollNext]_vars

\* |x - y| <= two cents
NearCents(x, y) == RLe(RAbs(RSub(x, y)), Pct(2))

FollowsForwardModel(res, C, g, r) ==
    LET R == ForwardRevenue(C, g)
    IN  /\ NearCents(res.revenue, R)
        /\ NearCents(res.overhead, RMul(r, R))
        /\ NearCents(res.commission, ForwardCommission(C, g))
        /\ NearCents(res.profit, ForwardProfit(C, g, r))

\* C11: every rollup the program produces (handle_pdf_drop's initial rollup,
\* recompute_pricing, compute_rollup_for_ui, summarize_job_costs) follows the
\* forward model for its C, r and g, to cent rounding: revenue = C/(1-g),
\* overhead = r*revenue, commission = rate(g)*revenue,
\* profit = revenue - C - overhead - commission
Orig_C11_RollupsFollowForwardModel ==
    roll.op # "none" => FollowsForwardModel(roll.res, RInt(roll.C), roll.g, roll.r)

\* the two rollups of app.py do follow it
AppRollupsFollowForwardModel ==
    roll.op \in {"handle_pdf_drop", "recompute_pricing"}
        => FollowsForwardModel(roll.res, RInt(roll.C), roll.g, roll.r)

(***************************************************************************)
(* app.py: the coil split.  Line items are the LineItem records of         *)
(* trades/registry.py; names and colors range over small vocabularies, on  *)
(* which str.strip(), str.lower() and the substring test are tables.       *)
(***************************************************************************)
Colors == {"Iron Gray", "iron gray", "Arctic White", " Arctic White ", ""}

\* (color or default).strip()
StripOr(color, default) ==
    CASE color = "" -> default
      [] color = " Arctic White " -> "Arctic White"
      [] OTHER -> color

\* str.lower() on stripped colors and on the two defaults
LowerColor(color) ==
    CASE color = "Iron Gray" -> "iron gray"
      [] color = "Arctic White" -> "arctic white"
      [] color = "Body" -> "body"
      [] color = "Trim" -> "trim"
      [] OTHER -> color

\* (finish or "").strip().lower()
LowerFinish(finish) ==
    CASE finish = "ColorPlus" -> "colorplus"
      [] finish = "Woodtone" -> "woodtone"
      [] finish = "Primed" -> "primed"
      [] OTHER -> finish

CoilLabels ==
    {StripOr(c, d) \o " Trim Coil" \o sfx :
        c \in Colors, d \in {"Body", "Trim"}, sfx \in {"", " (Body)", " (Trim)"}}

\* _is_coil: "coil" occurs in the lower-cased name
is_coil(li) == li.name \in {"coil_roll"} \cup CoilLabels

RECURSIVE coil_total_of(_)
coil_total_of(items) ==
    IF items = <<>> THEN 0
    ELSE (IF is_coil(Head(items)) THEN Max2(0, Head(items).qty) ELSE 0)
         + coil_total_of(Tail(items))

\* a split that forgets the division by four
split_color_coils_undivided(line_items, finish, body_color, trim_color) ==
    IF LowerFinish(finish) \notin {"colorplus", "woodtone"} THEN line_items
    ELSE
    LET coil_rows == SelectSeq(line_items, is_coil)
        coil_total == coil_total_of(line_items)
    IN  IF coil_total <= 0 \/ coil_rows = <<>> THEN line_items
        ELSE
        LET base == Head(coil_rows)
            pruned == SelectSeq(line_items, LAMBDA li : ~is_coil(li))
            mk(label) == [base EXCEPT !.qty = coil_total, !.name = label]
        IN  pruned \o << mk(StripOr(body_color, "Body") \o " Trim Coil"),
                         mk(StripOr(trim_color, "Trim") \o " Trim Coil") >>

split_color_coils(line_items, finish, body_color, trim_color) ==
    IF LowerFinish(finish) \notin {"colorplus", "woodtone"} THEN line_items
    ELSE IF line_items = <<>> THEN line_items
    ELSE
    LET coil_rows == SelectSeq(line_items, is_coil)
        coil_total == coil_total_of(line_items)
    IN  IF coil_total <= 0 \/ coil_rows = <<>> THEN line_items
        ELSE
        LET base_template == Head(coil_rows)
            in_coil_rows(li) == \E i \in 1 .. Len(coil_rows) : coil_rows[i] = li
            pruned == SelectSeq(line_items, LAMBDA li : ~in_coil_rows(li))
            per_color == Max2(1, Ceil(Rat(coil_total, 4)))
            bc == StripOr(body_color, "Body")
            tc == StripOr(trim_color, "Trim")
            same == (LowerColor(bc) \o " trim coil") = (LowerColor(tc) \o " trim coil")
            label_body == IF same THEN bc \o " Trim Coil" \o " (Body)"
                          ELSE bc \o " Trim Coil"
            label_trim == IF same THEN tc \o " Trim Coil" \o " (Trim)"
                          ELSE tc \o " Trim Coil"
            mk(label) ==
                [base_template EXCEPT
                    !.qty = per_color,
                    !.uom = IF base_template.uom # "" THEN base_template.uom ELSE "RL",
                    !.name = label]
        IN  pruned \o << mk(label_body), mk(label_trim) >>

RECURSIVE material_total(_)
material_total(lis) ==
    IF lis = <<>> THEN 0
    ELSE Head(lis).qty * Head(lis).unit_cost + material_total(Tail(lis))

\* _apply_coil_split: the trade cost with its coil rows split and its
\* material cost recomputed from the split lines
apply_coil_split(trade_cost, finish, body_color, trim_color) ==
    LET li2 == split_color_coils(trade_cost.line_items, finish, body_color, trim_color)
    IN  IF li2 = <<>> \/ li2 = trade_cost.line_items THEN trade_cost
        ELSE [trade_cost EXCEPT !.material_cost = material_total(li2),
                                !.line_items = li2]

(***************************************************************************)
(* Saving and reopening a job: steps 5 and 6 of handle_pdf_drop (price,    *)
(* split coils, baselines, rollup, persist) and open_job.  saved.window    *)
(* holds the three baseline maps of the main window.                       *)
(***************************************************************************)
Versions == {"1.0.0", "1.1.0"}

\* Catalog.version
CatalogVersion(catalog) == IF catalog.has_version THEN catalog.version ELSE "0.0.0"

JobItems == AsmItems \cup {"coil_roll"}
JobIncludes ==
    << Include("siding_sf", FromOutputs("total_sf"), TRUE, FALSE),
       Include("coil_roll", FromOutputs("coil_rolls"), FALSE, FALSE) >>
SidingOnlyIncludes == << Include("siding_sf", FromOutputs("total_sf"), TRUE, FALSE) >>

JobCatalogs ==
    [readable : BOOLEAN, has_version : {TRUE}, version : Versions,
     items : {[i \in JobItems |-> FullItem]},
     includes : {JobIncludes, SidingOnlyIncludes}, colorplus_extras : {<<>>}]

SavedJobInputs ==
    [region : {"Metro"}, finish : {"ColorPlus", "Primed"}, fascia_width_in : {8},
     siding_type : {"Lap", "Board & Batten"}, facades_sf : {0, MaxSf},
     trim_siding_sf : {0}, complexity : {"Low"}, demo_required : {TRUE},
     extra_layers : {0}, substrate : {"wood"},
     body_color : {"Iron Gray"}, trim_color : {"Iron Gray", "Arctic White"}]

\* the JobOutputs fields the assembly and the labor passthrough read
SavedJobOutputs ==
    [total_sf : {0, MaxSf}, total_sq : {5}, boards : {0, MaxQty},
     coil_rolls : {1, MaxQty}, labor_cost : {RInt(500)}]

\* {li.name: li[field] for li in line_items}: the last row of a name wins
DictOf(lis, field) ==
    LET last_of(n) == CHOOSE i \in DOMAIN lis :
                          /\ lis[i].name = n
                          /\ \A j \in DOMAIN lis : lis[j].name = n => j <= i
    IN  [n \in {lis[i].name : i \in DOMAIN lis} |-> lis[last_of(n)][field]]

Without(dict, keys) == [n \in DOMAIN dict \ keys |-> dict[n]]

GenericSidingKeys == {"siding sf", "siding_sf", "siding sqft", "siding_sqft"}
PlankKeys == {"plank_8_25_cm_colorplus", "plank_8_25_cm_primed"}

\* _is_board_and_batten and _purge_generic_siding_from_baselines
purge_generic_siding_from_baselines(window, siding_type) ==
    LET all_keys == DOMAIN window.materials_baseline
                    \cup DOMAIN window.baseline_unit_costs
                    \cup DOMAIN window.materials_unit_cost
        has_replacement == \E k \in all_keys :
                               k \in PlankKeys \cup {"bb_panel_4x10", "bb_batten_12ft"}
    IN  IF ~IsBoardAndBatten(Lower(siding_type)) \/ ~has_replacement THEN window
        ELSE [materials_baseline |-> Without(window.materials_baseline, GenericSidingKeys),
              baseline_unit_costs |-> Without(window.baseline_unit_costs, GenericSidingKeys),
              materials_unit_cost |-> Without(window.materials_unit_cost, GenericSidingKeys)]

\* the baselines both handlers build from a list of line items
BaselinesFrom(line_items) ==
    [materials_baseline |-> DictOf(line_items, "qty"),
     baseline_unit_costs |-> DictOf(line_items, "unit_cost"),
     materials_unit_cost |-> DictOf(line_items, "unit_cost")]

\* handle_pdf_drop: costs_dict for the priced trade cost
costs_dict(trade_cost) ==
    LET material_cost == RInt(trade_cost.material_cost)
        labor_cost == trade_cost.labor_cost
        cogs_total == RAdd(material_cost, labor_cost)
        target_gm == Pct(35)
        rev == Round2(RDiv(cogs_total, MaxEps(RSub(One, target_gm))))
        commission_dollars == Round2(RMul(rev, commission_rate_from_gross_gm(target_gm)))
        overhead_dollars == Round2(RMul(P20, rev))
    IN  [material_cost |-> material_cost, labor_cost |-> labor_cost, cogs |-> cogs_total,
         overhead_rate |-> P20, target_gm |-> target_gm,
         overhead_dollars |-> overhead_dollars, revenue_target |-> rev,
         projected_profit |->
             Round2(RSub(RSub(RSub(rev, cogs_total), overhead_dollars), commission_dollars)),
         gm_band |-> "MID", commission_total |-> commission_dollars,
         line_items |-> [i \in DOMAIN trade_cost.line_items |->
                            [k \in {"name", "qty", "uom", "unit_cost", "ext_cost"} |->
                                trade_cost.line_items[i][k]]]]

\* payload = dict(inputs=vars(inp), outputs=vars(out), costs=costs_dict)
PayloadOf(inp, out, trade_cost) ==
    [inputs |-> inp, outputs |-> out, costs |-> costs_dict(trade_cost)]

NoPayload ==
    [inputs |-> [siding_type |-> ""], outputs |-> [total_sf |-> 0],
     costs |-> [line_items |-> <<>>]]

\* open_job on a stored payload: the baselines are rebuilt only from a
\* non-empty line_items array, then purged for Board & Batten
open_job(window, payload) ==
    LET line_items == payload.costs.line_items
        w1 == IF line_items # <<>> THEN BaselinesFrom(line_items) ELSE window
    IN  purge_generic_siding_from_baselines(w1, payload.inputs.siding_type)

EmptyWindow == BaselinesFrom(<<>>)
\* the window after an earlier job with one plank row
EarlierWindow ==
    BaselinesFrom(<< [name |-> "plank_8_25_cm_primed", qty |-> MaxQty, uom |-> "EA",
                      unit_cost |-> 0, ext_cost |-> 0] >>)

SavedIdle ==
    [op |-> "none", catalog |-> CHOOSE c \in JobCatalogs : TRUE,
     inputs |-> CHOOSE i \in SavedJobInputs : TRUE,
     outputs |-> CHOOSE o \in SavedJobOutputs : TRUE,
     window |-> EmptyWindow, banner |-> FALSE, payload |-> NoPayload,
     at_save |-> EmptyWindow, version_used |-> "", current |-> "none",
     user_cost_overrides |-> "none"]

SavedInputs ==
    {x \in [op : {"none"}, catalog : JobCatalogs, inputs : SavedJobInputs,
            outputs : SavedJobOutputs, window : {EmptyWindow, EarlierWindow},
            banner : {FALSE}, payload : {NoPayload}, at_save : {EmptyWindow},
            version_used : {""}, current : {"none"}, user_cost_overrides : {"none"}] :
        x.outputs.total_sf = x.inputs.facades_sf}

SavedRest == UNCHANGED <<finVars, catVars, costVars, uiVars, roll, det, hover, coil,
                        est, units>>

\* handle_pdf_drop from pricing to persistence
JobSave ==
    /\ saved.op = "none"
    /\ \E priced_tc \in {price_trade("Siding", saved.inputs, saved.outputs, saved.catalog)} :
       \E trade_cost \in {apply_coil_split(priced_tc, saved.inputs.finish,
                              saved.inputs.body_color, saved.inputs.trim_color)} :
       \E b \in {BaselinesFrom(trade_cost.line_items)} :
       \E w \in {purge_generic_siding_from_baselines(b, saved.inputs.siding_type)} :
           IF priced_tc.status = "raised"
           THEN saved' = [saved EXCEPT !.op = "failed", !.banner = TRUE,
                              !.current = "new", !.user_cost_overrides = "none"]
           ELSE saved' = [saved EXCEPT !.op = "saved", !.window = w, !.at_save = w,
                              !.current = "new", !.user_cost_overrides = "none",
                              !.version_used = CatalogVersion(saved.catalog),
                              !.payload = PayloadOf(saved.inputs, saved.outputs, trade_cost)]
    /\ SavedRest

\* the user turns to an earlier job: the window takes that job's baselines
JobSwitch ==
    /\ saved.op \in {"saved", "opened"}
    /\ saved.window # EarlierWindow
    /\ saved' = [saved EXCEPT !.op = "saved", !.window = EarlierWindow,
                              !.current = "earlier", !.user_cost_overrides = "none"]
    /\ SavedRest

\* open_job on the job saved by JobSave
JobOpen ==
    /\ saved.op = "saved"
    /\ saved' = [saved EXCEPT !.op = "opened", !.current = "new",
                    !.window = open_job(saved.window, saved.payload)]
    /\ SavedRest

\* on_costs_cell_changed, Labor Cost or Commission Total: an override is
\* entered for the job shown (user_cost_overrides holds the job it was
\* typed for)
JobOverride ==
    /\ saved.op \in {"saved", "opened"}
    /\ saved.user_cost_overrides = "none"
    /\ saved' = [saved EXCEPT !.user_cost_overrides = saved.current]
    /\ SavedRest

SavedInit ==
    /\ saved \in SavedInputs
    /\ FinUnused
    /\ CatUnused
    /\ CostUnused
    /\ ui = None /\ roll = None /\ det = None /\ hover = None /\ coil = None /\ est = None /\ units = None

SavedNext ==
    \/ JobSave
    \/ JobSwitch
    \/ JobOpen
    \/ JobOverride

SpecSaved == SavedInit /\ [][SavedNext]_vars

VersionKeys == {"catalog_version", "version", "catalog"}

\* some part of the payload, or the payload itself, names the version
RecordsVersion(payload, version) ==
    \/ \E k \in VersionKeys \cap DOMAIN payload : payload[k] = version
    \/ \E part \in DOMAIN payload :
           \E k \in VersionKeys \cap DOMAIN payload[part] : payload[part][k] = version

\* C12: every persisted job result (the payload handle_pdf_drop writes to
\* the JSON file and the jobs table) records the version of the catalog that
\* priced it
Orig_C12_PayloadRecordsCatalogVersion ==
    saved.op \in {"saved", "opened"} => RecordsVersion(saved.payload, saved.version_used)

\* C14: the material-quantity and unit-cost baselines open_job rebuilds from
\* the persisted line_items equal the baselines in effect when the job was
\* saved
Orig_C14_BaselinesSurviveRoundTrip ==
    saved.op = "opened" => saved.window = saved.at_save

\* the round trip does hold for a job saved with at least one line item
BaselinesSurviveWithLineItems ==
    saved.op = "opened" /\ saved.payload.costs.line_items # <<>>
        => saved.window = saved.at_save

\* C28: after a job becomes current (by handle_pdf_drop for a new report or
\* by open_job for a saved one) the material-quantity and unit-cost
\* baselines and the user cost overrides hold only values that belong to
\* that job.
Orig_C28_JobsIsolated ==
    saved.op \in {"saved", "opened"} =>
        /\ saved.user_cost_overrides \in {"none", saved.current}
        /\ saved.window = IF saved.current = "earlier" THEN EarlierWindow
                           ELSE saved.at_save

\* handle_pdf_drop alone does isolate: it clears the overrides and, when the
\* job is priced, rebuilds the baselines from it
DropIsolates ==
    [][ saved'.op = "saved" /\ saved.op = "none" =>
          /\ saved'.user_cost_overrides = "none"
          /\ saved'.window = purge_generic_siding_from_baselines(
                                  BaselinesFrom(saved'.payload.costs.line_items),
                                  saved.inputs.siding_type) ]_vars

(***************************************************************************)
(* engine.py: compute_estimate.  Areas and lengths are whole feet, rates   *)
(* and money exact rationals.  The siding area rule is the configuration   *)
(* value core.rules.siding_area_rule() returns ("sum" or "max").  Catalog  *)
(* has no fastener_defaults and no labor_rate_for, so both catalog reads   *)
(* fall back to the engine's constants.                                    *)
(***************************************************************************)
AreaRules == {"sum", "max"}

\* _nz: None, NaN and negatives become 0.0
nz(x) == IF x < 0 THEN 0 ELSE x

\* _canon on the spellings the model draws
canon(val, allowed, default) == IF val \in allowed THEN val ELSE default

\* _LAP_REVEAL_TO_NOMINAL, in insertion order: <<reveal, nominal width>>
LAP_REVEAL_TO_NOMINAL ==
    << <<RInt(4), Rat(21, 4)>>, <<RInt(5), Rat(25, 4)>>, <<RInt(6), Rat(29, 4)>>,
       <<RInt(7), Rat(33, 4)>>, <<RInt(8), Rat(37, 4)>>, <<Rat(43, 4), RInt(12)>> >>

\* _snap_reveal_to_catalog: round to the quarter inch, then the nearest key
\* (min() keeps the first of equally near keys)
snap_reveal_to_catalog(reveal_in) ==
    LET r == Rat(RoundHalfEven(RMul(reveal_in, RInt(4))), 4)
        dist(i) == RAbs(RSub(LAP_REVEAL_TO_NOMINAL[i][1], r))
        best == CHOOSE i \in DOMAIN LAP_REVEAL_TO_NOMINAL :
                    \A j \in DOMAIN LAP_REVEAL_TO_NOMINAL :
                        RLt(dist(i), dist(j)) \/ (dist(i) = dist(j) /\ i <= j)
    IN  LAP_REVEAL_TO_NOMINAL[best][1]

nominal_width_for_reveal(reveal_in) ==
    LET r == snap_reveal_to_catalog(reveal_in)
        i == CHOOSE k \in DOMAIN LAP_REVEAL_TO_NOMINAL : LAP_REVEAL_TO_NOMINAL[k][1] = r
    IN  LAP_REVEAL_TO_NOMINAL[i][2]

\* planks counted by rounding up
planks_for_area_ceil(area_sf, exposure_in) ==
    IF RLe(exposure_in, Zero) THEN 0
    ELSE Max2(0, Ceil(RDiv(RInt(area_sf), exposure_in)))

\* _planks_for_area: max(0, round(area / exposure))
planks_for_area(area_sf, exposure_in) ==
    IF RLe(exposure_in, Zero) THEN 0
    ELSE Max2(0, RoundHalfEven(RDiv(RInt(area_sf), exposure_in)))

\* _nails_for_area: max(0, round(area * 10 / exposure))
nails_for_area(area_sf, exposure_in) ==
    IF RLe(exposure_in, Zero) THEN 0
    ELSE Max2(0, RoundHalfEven(RMul(RInt(area_sf), RDiv(RInt(10), exposure_in))))

compute_estimate(inp, rule) ==
    LET region == canon(inp.region, {"Metro", "North CO", "Mountains"}, "Metro")
        siding_type == canon(inp.siding_type, {"Lap", "Board & Batten", "Shake"}, "Lap")
        finish == canon(inp.finish, {"ColorPlus", "Primed", "Woodtone"}, "ColorPlus")
        complexity == canon(inp.complexity, {"Low", "Med", "High"}, "Low")
        total_sf == IF rule = "sum" THEN nz(inp.facades_sf) + nz(inp.trim_siding_sf)
                    ELSE Max2(nz(inp.facades_sf), nz(inp.trim_siding_sf))
        total_sq == Ceil(Rat(total_sf, 100))
        waste_pct == WastePct(complexity)
        exposure_in == RMax(One, RMin(RInt(12), snap_reveal_to_catalog(inp.lap_reveal_in)))
        boards == IF siding_type = "Lap"
                  THEN Ceil(RMul(RInt(planks_for_area(total_sf, exposure_in)),
                                 Rat(100 + waste_pct, 100)))
                  ELSE 0
        wrap_rolls == Ceil(RDiv(RInt(total_sf), RDiv(RInt(1350), Rat(120, 100))))
        nails_generic == nails_for_area(total_sf,
                             IF siding_type = "Lap" THEN exposure_in ELSE RInt(7))
        nail_boxes == Max2(1, Ceil(RDiv(RMul(RInt(nails_generic), Rat(110, 100)),
                                        RInt(2500))))
        raw_coils == IF finish = "Primed" THEN Ceil(Rat(total_sq, 5))
                     ELSE Ceil(Rat(total_sq * 2, 5)) * 2
        coil_rolls == Max2(1, Ceil(Rat(raw_coils, 2)))
        rate == LaborPsqBase(siding_type, region)           \* cents per SF
        psq == rate + (IF inp.demo_required THEN 0 ELSE -30)
                    + (IF inp.extra_layers > 0 THEN 60 * inp.extra_layers ELSE 0)
                    + (IF inp.substrate \in {"brick", "stucco"} THEN 150 ELSE 0)
        labor_psq == Round2(RInt(psq))
        labor_cost == Round2(RMul(RInt(total_sq), labor_psq))
        total_fascia_lf == nz(inp.eave_fascia_ft) + nz(inp.rake_fascia_ft)
        soffit_area_sf == RMul(RInt(total_fascia_lf),
                               IF inp.soffit_depth_gt_24 THEN Rat(30, 12) ELSE Rat(18, 12))
        soffit_panels == IF inp.soffit_depth_gt_24 /\ inp.soffit_enabled
                         THEN Ceil(RDiv(RMul(soffit_area_sf, Rat(110, 100)), RInt(40)))
                         ELSE 0
        trim4_lf == 2 * nz(inp.outside_corners_ft) + nz(inp.inside_corners_ft)
                    + nz(inp.openings_perimeter_ft)
        osb_area == IF inp.osb_area_override_sf # 0 THEN nz(inp.osb_area_override_sf)
                    ELSE total_sf
    IN  [total_sf |-> total_sf, total_sq |-> total_sq, boards |-> boards,
         wrap_rolls |-> wrap_rolls, tape_rolls |-> wrap_rolls * 2,
         nail_boxes |-> nail_boxes, coil_rolls |-> coil_rolls,
         window_flash_tape |-> Ceil(Rat(total_sq, 5)),
         soffit_panels_4x10 |-> soffit_panels,
         fascia_pieces_12ft |-> Ceil(Rat(total_fascia_lf, 12)),
         trim4_pieces_12ft |-> Ceil(Rat(trim4_lf, 12)),
         trim6_pieces_default |-> 2, trim8_pieces_default |-> 2,
         trim12_pieces_default |-> 2,
         paint_quarts |-> IF finish \in {"ColorPlus", "Woodtone"} THEN 0 ELSE 2,
         labor_rate_per_sf |-> Rat(rate, 100), labor_cost |-> labor_cost,
         osb_sheets |-> IF inp.osb_selected THEN Ceil(Rat(osb_area, 32)) ELSE 0,
         osb_framing_boxes |-> IF inp.osb_selected
                               THEN Max2(1, Ceil(Rat(osb_area, 1000))) ELSE 0,
         labor_psq |-> labor_psq, lap_reveal_in_effective |-> exposure_in,
         lap_nominal_width_in |-> nominal_width_for_reveal(exposure_in)]

(***************************************************************************)
(* Replaying a job in one session: catalog.json may be rewritten and the   *)
(* area rule reconfigured between two runs of compute_estimate,            *)
(* price_trade and the rollup on the same JobInputs.  The catalog a run    *)
(* sees is the one load_catalog returns from the module cache.             *)
(***************************************************************************)
\* what catalog.json holds when its content is c: contents 1 and 2 carry
\* the same version string and different Siding assemblies
CatalogOfContent(c) ==
    [readable |-> TRUE, has_version |-> TRUE,
     version |-> IF c <= 2 THEN "1.0.0" ELSE "1.1.0",
     items |-> [i \in JobItems |-> FullItem],
     includes |-> IF c % 2 = 1 THEN JobIncludes ELSE SidingOnlyIncludes,
     colorplus_extras |-> <<>>]

DetJobInputs ==
    [region : {"Metro"}, siding_type : {"Lap"}, finish : {"ColorPlus"},
     body_color : {"Iron Gray"}, trim_color : {"Arctic White"}, complexity : {"Low"},
     demo_required : {TRUE}, extra_layers : {0}, substrate : {"wood"},
     facades_sf : {MaxSf}, trim_siding_sf : {0, 200}, eave_fascia_ft : {0},
     rake_fascia_ft : {0}, soffit_depth_gt_24 : {FALSE}, openings_perimeter_ft : {0},
     outside_corners_ft : {0}, inside_corners_ft : {0}, fascia_width_in : {8},
     osb_selected : {FALSE}, osb_area_override_sf : {0}, lap_reveal_in : {RInt(7)},
     soffit_enabled : {TRUE}]

NoRun ==
    [status |-> "none", version |-> "", content |-> 0, rule |-> "",
     outputs |-> [total_sf |-> 0], line_items |-> <<>>, costs |-> [cogs |-> Zero]]

\* what one run of the pipeline leaves behind
RunRecord(rule, c, out, trade_cost, costs) ==
    [status |-> "returned", version |-> CatalogVersion(CatalogOfContent(c)),
     content |-> c, rule |-> rule, outputs |-> out,
     line_items |-> trade_cost.line_items, costs |-> costs]

DetRest == UNCHANGED <<finVars, costVars, uiVars, roll, saved, hover, coil,
                        est, units>>

\* the job is run: every load_catalog call of the run sees the same file
DetRun ==
    /\ det.op \in {"none", "first"}
    /\ \E r \in {load_catalog(CATALOG_CACHE, CATALOG_MTIME, file)} :
          /\ r.ok
          /\ CATALOG_CACHE' = r.cache
          /\ CATALOG_MTIME' = r.mtime
          /\ \E out \in {compute_estimate(det.inputs, det.rule)} :
             \E priced_tc \in {price_trade("Siding", det.inputs, out,
                                           CatalogOfContent(r.value))} :
             \E trade_cost \in {apply_coil_split(priced_tc, det.inputs.finish,
                                    det.inputs.body_color, det.inputs.trim_color)} :
             \E costs \in {costs_dict(trade_cost)} :
             \E run \in {RunRecord(det.rule, r.value, out, trade_cost, costs)} :
                det' = IF det.op = "none"
                       THEN [det EXCEPT !.op = "first", !.first = run]
                       ELSE [det EXCEPT !.op = "both", !.second = run]
    /\ UNCHANGED <<file, catret>>
    /\ DetRest

\* another job is processed in between: it loads the catalog
DetOtherJob ==
    /\ det.op = "first"
    /\ \E r \in {load_catalog(CATALOG_CACHE, CATALOG_MTIME, file)} :
          /\ r.ok
          /\ r.cache # CATALOG_CACHE \/ r.mtime # CATALOG_MTIME
          /\ CATALOG_CACHE' = r.cache
          /\ CATALOG_MTIME' = r.mtime
    /\ UNCHANGED <<file, catret, det>>
    /\ DetRest

\* the area rule is reconfigured
DetSetRule ==
    /\ det.op = "first"
    /\ \E rule \in AreaRules \ {det.rule} : det' = [det EXCEPT !.rule = rule]
    /\ UNCHANGED catVars
    /\ DetRest

\* catalog.json is rewritten between the runs
DetModifyFile ==
    /\ det.op = "first"
    /\ ModifyFile
    /\ UNCHANGED <<CATALOG_CACHE, CATALOG_MTIME>>

DetInit ==
    /\ det \in [op : {"none"}, rule : AreaRules, inputs : DetJobInputs,
                first : {NoRun}, second : {NoRun}]
    /\ file \in [exists : {TRUE}, valid : {TRUE}, content : 1 .. MaxContent,
                 mtime : 1 .. MaxMtime]
    /\ CATALOG_CACHE = None
    /\ CATALOG_MTIME = None
    /\ catret = NoCall
    /\ FinUnused
    /\ CostUnused
    /\ ui = None /\ roll = None /\ saved = None /\ hover = None /\ coil = None /\ est = None /\ units = None

DetNext ==
    \/ DetRun
    \/ DetOtherJob
    \/ DetSetRule
    \/ DetModifyFile

SpecDet == DetInit /\ [][DetNext]_vars

SameResults(a, b) ==
    /\ a.outputs = b.outputs
    /\ a.line_items = b.line_items
    /\ a.costs = b.costs

\* C13: two runs of compute_estimate, price_trade and the rollup on equal
\* JobInputs, against catalogs reporting the same version, give equal
\* JobOutputs, line items and rounded money, whatever the cache state, the
\* configuration read outside the inputs and the jobs processed in between
Orig_C13_Deterministic ==
    det.op = "both" /\ det.first.version = det.second.version
        => SameResults(det.first, det.second)

\* the runs do agree when catalog content and area rule are the same
DeterministicForSameContentAndRule ==
    det.op = "both" /\ det.first.content = det.second.content
                    /\ det.first.rule = det.second.rule
        => SameResults(det.first, det.second)

\* ---------------------------------------------------------------------
\* HOVER report text: engine.extract_hover_totals and the corner backfill
\* of app.handle_pdf_drop / app.parse_hover_pdf.  A report is a sequence
\* of non-blank lines; a line is the record of what the parser's
\* substring tests and regular expressions find in it.
\* ---------------------------------------------------------------------
MaxLines == 3

Lookahead == 40
AreaLookahead == 10
TotPerLookahead == 3
SubWindow == 6
BareMin == 1
BareMax == 5000

Min2(a, b) == IF a <= b THEN a ELSE b
SetMin(S) == CHOOSE x \in S : \A y \in S : x <= y

ReportLines == {
    [text |-> "Eaves",
     facades_hdr |-> FALSE, trim_hdr |-> FALSE, eaves_hdr |-> TRUE, rakes_hdr |-> FALSE,
     totper_hdr |-> FALSE, openings_hdr |-> FALSE, corners_hdr |-> FALSE, perim |-> FALSE,
     eaves_end |-> FALSE, rakes_end |-> TRUE, openings_end |-> TRUE, corners_end |-> TRUE,
     outside |-> FALSE, inside |-> FALSE, area |-> <<>>, ftin |-> <<>>, unit |-> <<>>, bare |-> <<>>,
     tokens |-> FALSE, vocab |-> FALSE, patt_out |-> <<>>, patt_in |-> <<>>, oc_line |-> <<>>, ic_line |-> <<>>],
    [text |-> "Eaves 120 ft",
     facades_hdr |-> FALSE, trim_hdr |-> FALSE, eaves_hdr |-> TRUE, rakes_hdr |-> FALSE,
     totper_hdr |-> FALSE, openings_hdr |-> FALSE, corners_hdr |-> FALSE, perim |-> FALSE,
     eaves_end |-> FALSE, rakes_end |-> TRUE, openings_end |-> TRUE, corners_end |-> TRUE,
     outside |-> FALSE, inside |-> FALSE, area |-> <<>>, ftin |-> <<>>, unit |-> <<120>>, bare |-> <<>>,
     tokens |-> FALSE, vocab |-> FALSE, patt_out |-> <<>>, patt_in |-> <<>>, oc_line |-> <<>>, ic_line |-> <<>>],
    [text |-> "Rakes 45 ft",
     facades_hdr |-> FALSE, trim_hdr |-> FALSE, eaves_hdr |-> FALSE, rakes_hdr |-> TRUE,
     totper_hdr |-> FALSE, openings_hdr |-> FALSE, corners_hdr |-> FALSE, perim |-> FALSE,
     eaves_end |-> TRUE, rakes_end |-> FALSE, openings_end |-> TRUE, corners_end |-> TRUE,
     outside |-> FALSE, inside |-> FALSE, area |-> <<>>, ftin |-> <<>>, unit |-> <<45>>, bare |-> <<>>,
     tokens |-> FALSE, vocab |-> FALSE, patt_out |-> <<>>, patt_in |-> <<>>, oc_line |-> <<>>, ic_line |-> <<>>],
    [text |-> "113'6\" (114 ft)",
     facades_hdr |-> FALSE, trim_hdr |-> FALSE, eaves_hdr |-> FALSE, rakes_hdr |-> FALSE,
     totper_hdr |-> FALSE, openings_hdr |-> FALSE, corners_hdr |-> FALSE, perim |-> FALSE,
     eaves_end |-> FALSE, rakes_end |-> FALSE, openings_end |-> FALSE, corners_end |-> FALSE,
     outside |-> FALSE, inside |-> FALSE, area |-> <<>>, ftin |-> <<113, 6>>, unit |-> <<114>>, bare |-> <<>>,
     tokens |-> FALSE, vocab |-> FALSE, patt_out |-> <<>>, patt_in |-> <<>>, oc_line |-> <<>>, ic_line |-> <<>>],
    [text |-> "45",
     facades_hdr |-> FALSE, trim_hdr |-> FALSE, eaves_hdr |-> FALSE, rakes_hdr |-> FALSE,
     totper_hdr |-> FALSE, openings_hdr |-> FALSE, corners_hdr |-> FALSE, perim |-> FALSE,
     eaves_end |-> FALSE, rakes_end |-> FALSE, openings_end |-> FALSE, corners_end |-> FALSE,
     outside |-> FALSE, inside |-> FALSE, area |-> <<>>, ftin |-> <<>>, unit |-> <<>>, bare |-> <<45>>,
     tokens |-> FALSE, vocab |-> FALSE, patt_out |-> <<>>, patt_in |-> <<>>, oc_line |-> <<>>, ic_line |-> <<>>],
    [text |-> "5001",
     facades_hdr |-> FALSE, trim_hdr |-> FALSE, eaves_hdr |-> FALSE, rakes_hdr |-> FALSE,
     totper_hdr |-> FALSE, openings_hdr |-> FALSE, corners_hdr |-> FALSE, perim |-> FALSE,
     eaves_end |-> FALSE, rakes_end |-> FALSE, openings_end |-> FALSE, corners_end |-> FALSE,
     outside |-> FALSE, inside |-> FALSE, area |-> <<>>, ftin |-> <<>>, unit |-> <<>>, bare |-> <<5001>>,
     tokens |-> FALSE, vocab |-> FALSE, patt_out |-> <<>>, patt_in |-> <<>>, oc_line |-> <<>>, ic_line |-> <<>>],
    [text |-> "Corners",
     facades_hdr |-> FALSE, trim_hdr |-> FALSE, eaves_hdr |-> FALSE, rakes_hdr |-> FALSE,
     totper_hdr |-> FALSE, openings_hdr |-> FALSE, corners_hdr |-> TRUE, perim |-> FALSE,
     eaves_end |-> TRUE, rakes_end |-> TRUE, openings_end |-> TRUE, corners_end |-> FALSE,
     outside |-> FALSE, inside |-> FALSE, area |-> <<>>, ftin |-> <<>>, unit |-> <<>>, bare |-> <<>>,
     tokens |-> TRUE, vocab |-> TRUE, patt_out |-> <<>>, patt_in |-> <<>>, oc_line |-> <<>>, ic_line |-> <<>>],
    [text |-> "Outside 40 ft",
     facades_hdr |-> FALSE, trim_hdr |-> FALSE, eaves_hdr |-> FALSE, rakes_hdr |-> FALSE,
     totper_hdr |-> FALSE, openings_hdr |-> FALSE, corners_hdr |-> FALSE, perim |-> FALSE,
     eaves_end |-> FALSE, rakes_end |-> FALSE, openings_end |-> FALSE, corners_end |-> FALSE,
     outside |-> TRUE, inside |-> FALSE, area |-> <<>>, ftin |-> <<>>, unit |-> <<40>>, bare |-> <<>>,
     tokens |-> FALSE, vocab |-> FALSE, patt_out |-> <<>>, patt_in |-> <<>>, oc_line |-> <<>>, ic_line |-> <<>>],
    [text |-> "Inside:",
     facades_hdr |-> FALSE, trim_hdr |-> FALSE, eaves_hdr |-> FALSE, rakes_hdr |-> FALSE,
     totper_hdr |-> FALSE, openings_hdr |-> FALSE, corners_hdr |-> FALSE, perim |-> FALSE,
     eaves_end |-> FALSE, rakes_end |-> FALSE, openings_end |-> FALSE, corners_end |-> FALSE,
     outside |-> FALSE, inside |-> TRUE, area |-> <<>>, ftin |-> <<>>, unit |-> <<>>, bare |-> <<>>,
     tokens |-> FALSE, vocab |-> FALSE, patt_out |-> <<>>, patt_in |-> <<>>, oc_line |-> <<>>, ic_line |-> <<>>],
    [text |-> "Price",
     facades_hdr |-> FALSE, trim_hdr |-> FALSE, eaves_hdr |-> FALSE, rakes_hdr |-> FALSE,
     totper_hdr |-> FALSE, openings_hdr |-> FALSE, corners_hdr |-> FALSE, perim |-> FALSE,
     eaves_end |-> FALSE, rakes_end |-> FALSE, openings_end |-> FALSE, corners_end |-> FALSE,
     outside |-> FALSE, inside |-> FALSE, area |-> <<>>, ftin |-> <<>>, unit |-> <<>>, bare |-> <<>>,
     tokens |-> TRUE, vocab |-> FALSE, patt_out |-> <<>>, patt_in |-> <<0>>, oc_line |-> <<>>, ic_line |-> <<>>],
    [text |-> "OC: 96 LF",
     facades_hdr |-> FALSE, trim_hdr |-> FALSE, eaves_hdr |-> FALSE, rakes_hdr |-> FALSE,
     totper_hdr |-> FALSE, openings_hdr |-> FALSE, corners_hdr |-> FALSE, perim |-> FALSE,
     eaves_end |-> FALSE, rakes_end |-> FALSE, openings_end |-> FALSE, corners_end |-> FALSE,
     outside |-> FALSE, inside |-> FALSE, area |-> <<>>, ftin |-> <<>>, unit |-> <<96>>, bare |-> <<>>,
     tokens |-> TRUE, vocab |-> TRUE, patt_out |-> <<96>>, patt_in |-> <<>>, oc_line |-> <<96>>, ic_line |-> <<>>],
    [text |-> "IC: 72 LF",
     facades_hdr |-> FALSE, trim_hdr |-> FALSE, eaves_hdr |-> FALSE, rakes_hdr |-> FALSE,
     totper_hdr |-> FALSE, openings_hdr |-> FALSE, corners_hdr |-> FALSE, perim |-> FALSE,
     eaves_end |-> FALSE, rakes_end |-> FALSE, openings_end |-> FALSE, corners_end |-> FALSE,
     outside |-> FALSE, inside |-> FALSE, area |-> <<>>, ftin |-> <<>>, unit |-> <<72>>, bare |-> <<>>,
     tokens |-> TRUE, vocab |-> TRUE, patt_out |-> <<>>, patt_in |-> <<72>>, oc_line |-> <<>>, ic_line |-> <<72>>],
    [text |-> "Openings Total Perimeter",
     facades_hdr |-> FALSE, trim_hdr |-> FALSE, eaves_hdr |-> FALSE, rakes_hdr |-> FALSE,
     totper_hdr |-> TRUE, openings_hdr |-> TRUE, corners_hdr |-> FALSE, perim |-> TRUE,
     eaves_end |-> TRUE, rakes_end |-> TRUE, openings_end |-> FALSE, corners_end |-> TRUE,
     outside |-> FALSE, inside |-> FALSE, area |-> <<>>, ftin |-> <<>>, unit |-> <<>>, bare |-> <<>>,
     tokens |-> FALSE, vocab |-> FALSE, patt_out |-> <<>>, patt_in |-> <<>>, oc_line |-> <<>>, ic_line |-> <<>>]
}

Reports == UNION {[1 .. n -> ReportLines] : n \in 0 .. MaxLines}

\* a scanned length and the line it was read from (0: no line)
NoLen == [v |-> Zero, at |-> 0]

\* float(feet) + float(inches)/12.0
FtIn(tok) == RAdd(RInt(tok[1]), Rat(tok[2], 12))

\* the length token of one line: _len_ftin first, then _len_with_unit
HasLen(line) == line.ftin # <<>> \/ line.unit # <<>>
LenOf(line) == IF line.ftin # <<>> THEN FtIn(line.ftin) ELSE RInt(line.unit[1])

scan_area(lines, idx, lookahead) ==
    IF idx = None THEN Zero
    ELSE LET hits == {j \in idx .. Min2(idx + lookahead, Len(lines)) :
                          lines[j].area # <<>>}
         IN  IF hits = {} THEN Zero ELSE RInt(lines[SetMin(hits)].area[1])

scan_len_strict_unit_first(lines, idx, lookahead) ==
    IF idx = None THEN NoLen
    ELSE LET hits == {j \in idx .. Min2(idx + lookahead, Len(lines)) :
                          HasLen(lines[j])}
         IN  IF hits = {} THEN NoLen
             ELSE [v  |-> IF lines[SetMin(hits)].unit # <<>>
                          THEN RInt(lines[SetMin(hits)].unit[1])
                          ELSE FtIn(lines[SetMin(hits)].ftin),
                   at |-> SetMin(hits)]

\* line idx, then the lookahead lines after it; the first line holding a
\* token decides
scan_len_strict(lines, idx, lookahead) ==
    IF idx = None THEN NoLen
    ELSE LET hits == {j \in idx .. Min2(idx + lookahead, Len(lines)) :
                          HasLen(lines[j])}
         IN  IF hits = {} THEN NoLen
             ELSE [v |-> LenOf(lines[SetMin(hits)]), at |-> SetMin(hits)]

\* lines start .. end_-1: the preferred line, then every line with a
\* one-line lookahead, then whole-line bare numbers within the bounds
scan_len_within_block(lines, start, end_, prefer_line_idx, allow_bare, bare_min, bare_max) ==
    LET pref  == IF prefer_line_idx # None /\ start <= prefer_line_idx
                                           /\ prefer_line_idx < end_
                 THEN scan_len_strict(lines, prefer_line_idx, 1) ELSE NoLen
        found == {j \in start .. end_ - 1 :
                      scan_len_strict(lines, j, 1).v[1] # 0}
        bares == {j \in start .. end_ - 1 :
                      /\ lines[j].bare # <<>>
                      /\ bare_min <= lines[j].bare[1]
                      /\ lines[j].bare[1] <= bare_max}
    IN  IF pref.v[1] # 0 THEN pref
        ELSE IF found # {} THEN scan_len_strict(lines, SetMin(found), 1)
        ELSE IF allow_bare /\ bares # {}
             THEN [v |-> RInt(lines[SetMin(bares)].bare[1]), at |-> SetMin(bares)]
        ELSE NoLen

\* first line of from .. to holding one of the variants (None: no line)
find_first(lines, from, to, variants) ==
    LET hits == {j \in from .. to : lines[j][variants]}
    IN  IF hits = {} THEN None ELSE SetMin(hits)

\* the line that ends the block opened at start_idx (exclusive end)
find_under_block(lines, start_idx, end_labels, lookahead) ==
    LET limit == Min2(Len(lines) + 1, start_idx + 1 + lookahead)
        ends  == {j \in start_idx + 1 .. limit - 1 : lines[j][end_labels]}
    IN  IF ends = {} THEN limit ELSE SetMin(ends)

\* a header's block [s, e) and the length scanned in it
block_len(lines, header, end_labels) ==
    LET s == find_first(lines, 1, Len(lines), header)
    IN  IF s = None THEN [v |-> Zero, at |-> 0, s |-> None, e |-> None]
        ELSE LET e == find_under_block(lines, s, end_labels, Lookahead)
                 r == scan_len_within_block(lines, s, e, None, TRUE, BareMin, BareMax)
             IN  [v |-> r.v, at |-> r.at, s |-> s, e |-> e]

eaves_len(lines) == block_len(lines, "eaves_hdr", "eaves_end")
rakes_len(lines) == block_len(lines, "rakes_hdr", "rakes_end")

openings_len(lines) ==
    LET totper_idx == find_first(lines, 1, Len(lines), "totper_hdr")
        v_strict == scan_len_strict(lines, totper_idx, TotPerLookahead)
        v_same == IF totper_idx = None THEN NoLen
                  ELSE IF v_strict.v[1] # 0 THEN v_strict
                  ELSE scan_len_within_block(lines, totper_idx,
                           Min2(totper_idx + SubWindow, Len(lines) + 1),
                           None, TRUE, BareMin, BareMax)
        openings_hdr == find_first(lines, 1, Len(lines), "openings_hdr")
        e == find_under_block(lines, openings_hdr, "openings_end", Lookahead)
        perim_row == find_first(lines, openings_hdr, e - 1, "perim")
    IN  IF v_same.v[1] # 0
        THEN [v |-> v_same.v, at |-> v_same.at, s |-> totper_idx,
              e |-> Min2(totper_idx + SubWindow, Len(lines) + 1)]
        ELSE IF openings_hdr # None /\ perim_row # None
        THEN LET r == scan_len_within_block(lines, openings_hdr, e, perim_row,
                                            TRUE, BareMin, BareMax)
             IN  [v |-> r.v, at |-> r.at, s |-> openings_hdr, e |-> e]
        ELSE [v |-> Zero, at |-> 0, s |-> None, e |-> None]

\* one corner type inside the corners block: the sub-window under its
\* first row, then every row naming it
corner_len(lines, word) ==
    LET corners_hdr == find_first(lines, 1, Len(lines), "corners_hdr")
        e   == find_under_block(lines, corners_hdr, "corners_end", Lookahead)
        idx == find_first(lines, corners_hdr, e - 1, word)
        sub == IF idx = None THEN NoLen
               ELSE scan_len_within_block(lines, idx, Min2(e, idx + SubWindow),
                                          None, TRUE, BareMin, BareMax)
        row(j) == IF scan_len_strict(lines, j, 1).v[1] # 0
                  THEN scan_len_strict(lines, j, 1)
                  ELSE IF lines[j].bare # <<>>
                       THEN [v |-> RInt(lines[j].bare[1]), at |-> j]
                  ELSE NoLen
        rows == {j \in corners_hdr .. e - 1 :
                     /\ lines[j][word]
                     /\ RLt(Zero, row(j).v)
                     /\ RLe(row(j).v, RInt(BareMax))}
    IN  IF corners_hdr = None THEN [v |-> Zero, at |-> 0, s |-> None, e |-> None]
        ELSE IF sub.v[1] # 0 THEN [v |-> sub.v, at |-> sub.at, s |-> corners_hdr, e |-> e]
        ELSE IF rows # {}
             THEN [v |-> row(SetMin(rows)).v, at |-> row(SetMin(rows)).at,
                   s |-> corners_hdr, e |-> e]
        ELSE [v |-> Zero, at |-> 0, s |-> corners_hdr, e |-> e]

extract_hover_totals(lines) ==
    [facades_sf     |-> Round2(scan_area(lines,
                            find_first(lines, 1, Len(lines), "facades_hdr"),
                            AreaLookahead)),
     trim_siding_sf |-> Round2(scan_area(lines,
                            find_first(lines, 1, Len(lines), "trim_hdr"),
                            AreaLookahead)),
     eave_fascia    |-> Round2(eaves_len(lines).v),
     rake_fascia    |-> Round2(rakes_len(lines).v),
     openings_perim |-> Round2(openings_len(lines).v),
     outside        |-> Round2(corner_len(lines, "outside").v),
     inside         |-> Round2(corner_len(lines, "inside").v),
     corners_seen   |-> find_first(lines, 1, Len(lines), "corners_hdr") # None]

\* _extract_corners_from_text: the looser label patterns over the whole
\* text; each pattern takes its first match, and the "OC:" / "IC:" line
\* form is tried when that match gave no length
first_match(lines, patt) ==
    LET hits == {j \in 1 .. Len(lines) : lines[j][patt] # <<>>}
    IN  IF hits = {} THEN 0 ELSE lines[SetMin(hits)][patt][1]

extract_corners_from_text(lines) ==
    LET out_val == first_match(lines, "patt_out")
        in_val  == first_match(lines, "patt_in")
    IN  [oc  |-> IF out_val = 0 THEN first_match(lines, "oc_line") ELSE out_val,
         ic  |-> IF in_val = 0 THEN first_match(lines, "ic_line") ELSE in_val,
         any_tokens |-> \/ \E j \in 1 .. Len(lines) : lines[j].tokens
                        \/ \E j \in 1 .. Len(lines) : lines[j].patt_out # <<>>
                        \/ \E j \in 1 .. Len(lines) : lines[j].patt_in # <<>>]

\* the corner backfill and the warning flag
backfill_corners(totals, lines) ==
    LET c == extract_corners_from_text(lines)
        out_ft == IF totals.outside[1] = 0 /\ c.oc > 0 THEN RInt(c.oc)
                  ELSE totals.outside
        in_ft  == IF totals.inside[1] = 0 /\ c.ic > 0 THEN RInt(c.ic)
                  ELSE totals.inside
    IN  IF totals.outside[1] = 0 \/ totals.inside[1] = 0
        THEN [totals EXCEPT !.outside = out_ft, !.inside = in_ft]
                 @@ [warn_corners |-> c.any_tokens /\ out_ft[1] = 0 /\ in_ft[1] = 0]
        ELSE totals @@ [warn_corners |-> FALSE]

NoTotals == [facades_sf |-> Zero, trim_siding_sf |-> Zero, eave_fascia |-> Zero,
             rake_fascia |-> Zero, openings_perim |-> Zero, outside |-> Zero,
             inside |-> Zero, corners_seen |-> FALSE, warn_corners |-> FALSE]

HoverRest == UNCHANGED <<finVars, catVars, costVars, uiVars, roll, saved, det, coil,
                        est, units>>

\* a report is dropped on the window
HoverPdfDrop ==
    /\ hover.op = "text"
    /\ \E t \in {extract_hover_totals(hover.lines)} :
       \E totals \in {backfill_corners(t, hover.lines)} :
          hover' = [hover EXCEPT !.op = "dropped", !.totals = totals]
    /\ HoverRest

\* a report is parsed from the file dialog
HoverParsePdf ==
    /\ hover.op = "text"
    /\ \E t \in {extract_hover_totals(hover.lines)} :
       \E totals \in {backfill_corners(t, hover.lines)} :
          hover' = [hover EXCEPT !.op = "parsed", !.totals = totals]
    /\ HoverRest

HoverInit ==
    /\ hover \in [op : {"text"}, lines : Reports, totals : {NoTotals}]
    /\ FinUnused
    /\ CatUnused
    /\ CostUnused
    /\ ui = None /\ roll = None /\ saved = None /\ det = None /\ coil = None /\ est = None /\ units = None

HoverNext ==
    \/ HoverPdfDrop
    \/ HoverParsePdf

SpecHover == HoverInit /\ [][HoverNext]_vars

Parsed == hover.op \in {"dropped", "parsed"}

\* the lines of a block [s, e) and the candidates of each kind in it
WindowOf(w) == IF w.s = None THEN {} ELSE w.s .. w.e - 1
FtInLines(lines, w) == {j \in WindowOf(w) : lines[j].ftin # <<>>}
UnitLines(lines, w) == {j \in WindowOf(w) : lines[j].unit # <<>>}
BareLines(lines, w) == {j \in WindowOf(w) : /\ lines[j].bare # <<>>
                                            /\ lines[j].bare[1] >= BareMin
                                            /\ lines[j].bare[1] <= BareMax}

\* the priority over the whole window: feet-inches, then unit, then bare
StrictPriority(lines, w, got) ==
    IF FtInLines(lines, w) # {}
    THEN \E j \in FtInLines(lines, w) : got = Round2(FtIn(lines[j].ftin))
    ELSE IF UnitLines(lines, w) # {}
    THEN \E j \in UnitLines(lines, w) : got = RInt(lines[j].unit[1])
    ELSE IF BareLines(lines, w) # {}
    THEN \E j \in BareLines(lines, w) : got = RInt(lines[j].bare[1])
    ELSE \A j \in WindowOf(w) : lines[j].bare # <<>> => got # RInt(lines[j].bare[1])

LineByLinePriority(lines, w, got) ==
    LET toks == {j \in WindowOf(w) : lines[j].ftin # <<>> \/ lines[j].unit # <<>>}
        tok(j) == IF lines[j].ftin # <<>>
                  THEN Round2(RAdd(RInt(lines[j].ftin[1]), Rat(lines[j].ftin[2], 12)))
                  ELSE RInt(lines[j].unit[1])
        spill == /\ w.s # None
                 /\ w.e <= Len(lines)
                 /\ (lines[w.e].ftin # <<>> \/ lines[w.e].unit # <<>>)
    IN  IF toks # {} THEN got = tok(SetMin(toks))
        ELSE IF spill THEN got = tok(w.e)
        ELSE IF BareLines(lines, w) # {}
             THEN got = RInt(lines[SetMin(BareLines(lines, w))].bare[1])
        ELSE got = Zero

FromWindow(w, got) == got[1] # 0 => w.at \in WindowOf(w)

\* C16: the value extracted for eave, rake, openings perimeter and the
\* corner lengths comes from a line inside the metric's window, never
\* from the terminating section-header line or a line after it.
Orig_C16_ValueFromWindow ==
    Parsed =>
        /\ FromWindow(eaves_len(hover.lines), hover.totals.eave_fascia)
        /\ FromWindow(rakes_len(hover.lines), hover.totals.rake_fascia)
        /\ FromWindow(openings_len(hover.lines), hover.totals.openings_perim)
        /\ FromWindow(corner_len(hover.lines, "outside"),
                      extract_hover_totals(hover.lines).outside)
        /\ FromWindow(corner_len(hover.lines, "inside"),
                      extract_hover_totals(hover.lines).inside)

\* corner vocabulary: the word corner(s) or the label OC / IC
HasCornerVocabulary(lines) == \E j \in 1 .. Len(lines) : lines[j].vocab

\* C17: after a report is parsed, warn_corners is true exactly when
\* corner vocabulary occurs in the text and neither corner type has a
\* usable length after the backfill; it is false when a corner length is
\* non-zero or the text has no corner vocabulary.
Orig_C17_WarnCornersExact ==
    Parsed =>
        (hover.totals.warn_corners <=>
            /\ HasCornerVocabulary(hover.lines)
            /\ hover.totals.outside = Zero
            /\ hover.totals.inside = Zero)

\* ---------------------------------------------------------------------
\* The coil split on its own: app.split_color_coils and the engine's
\* _split_coils_lineitems applied to a priced line-item list.
\* ---------------------------------------------------------------------
CoilQtys == {0, 1, 5, 10}
CoilFinishes == Finishes \cup {"Woodtone"}

PlankRow == [name |-> "plank_8.25", qty |-> 12, uom |-> "EA",
             unit_cost |-> 10, ext_cost |-> 120]
CoilRow(q) == [name |-> "coil_roll", qty |-> q, uom |-> "RL",
               unit_cost |-> 100, ext_cost |-> q * 100]
CoilJobRows == {PlankRow} \cup {CoilRow(q) : q \in CoilQtys}
CoilJobLists == UNION {[1 .. n -> CoilJobRows] : n \in 0 .. 2}

SetMax(S) == CHOOSE x \in S : \A y \in S : y <= x

RECURSIVE coil_qty_sum(_)
coil_qty_sum(items) ==
    IF items = <<>> THEN 0
    ELSE (IF is_coil(Head(items)) THEN Head(items).qty ELSE 0)
         + coil_qty_sum(Tail(items))

\* engine._split_coils_lineitems: the two rows are built afresh from the
\* last coil row's uom and unit cost; the labels get no suffix
split_coils_lineitems(lines, finish, body_color, trim_color) ==
    IF LowerFinish(finish) \notin {"colorplus", "woodtone"} THEN lines
    ELSE
    LET coil_idxs == {i \in DOMAIN lines : is_coil(lines[i])}
        total_qty == coil_qty_sum(lines)
    IN  IF coil_idxs = {} \/ total_qty <= 0 THEN lines
        ELSE
        LET with_uom == {i \in coil_idxs : lines[i].uom # ""}
            uom == IF with_uom = {} THEN "RL" ELSE lines[SetMax(with_uom)].uom
            unit_cost == lines[SetMax(coil_idxs)].unit_cost
            pruned == SelectSeq(lines, LAMBDA li : ~is_coil(li))
            per_color == Max2(1, Ceil(Rat(total_qty, 4)))
            mk(label) == [name |-> label, qty |-> per_color, uom |-> uom,
                          unit_cost |-> unit_cost, ext_cost |-> per_color * unit_cost]
        IN  pruned \o << mk(StripOr(body_color, "Body") \o " Trim Coil"),
                         mk(StripOr(trim_color, "Trim") \o " Trim Coil") >>

CoilRest == UNCHANGED <<finVars, catVars, costVars, uiVars, roll, saved, det, hover,
                        est, units>>

\* the window's split after pricing (_apply_coil_split)
CoilSplitApp ==
    /\ coil.op = "none"
    /\ \E r \in {split_color_coils(coil.line_items, coil.finish,
                                   coil.body_color, coil.trim_color)} :
          coil' = [coil EXCEPT !.op = "app", !.result = r]
    /\ CoilRest

\* the engine's split (build_siding_materials_via_service)
CoilSplitEngine ==
    /\ coil.op = "none"
    /\ \E r \in {split_coils_lineitems(coil.line_items, coil.finish,
                                       coil.body_color, coil.trim_color)} :
          coil' = [coil EXCEPT !.op = "engine", !.result = r]
    /\ CoilRest

\* the window's split applied to a list it has already split
CoilSplitAppAgain ==
    /\ coil.op = "app"
    /\ \E r \in {split_color_coils(coil.result, coil.finish,
                                   coil.body_color, coil.trim_color)} :
          coil' = [coil EXCEPT !.op = "app_twice", !.again = r]
    /\ CoilRest

CoilInit ==
    /\ coil \in [op : {"none"}, line_items : CoilJobLists, finish : CoilFinishes,
                 body_color : Colors, trim_color : Colors, result : {<<>>},
                 again : {<<>>}]
    /\ FinUnused
    /\ CatUnused
    /\ CostUnused
    /\ ui = None /\ roll = None /\ saved = None /\ det = None /\ hover = None /\ est = None /\ units = None

CoilNext ==
    \/ CoilSplitApp
    \/ CoilSplitEngine
    \/ CoilSplitAppAgain

SpecCoil == CoilInit /\ [][CoilNext]_vars

\* the rows of the result that are not rows of the input's non-coil part
NonCoil(items) == SelectSeq(items, LAMBDA li : ~is_coil(li))
CoilsOf(items) == SelectSeq(items, is_coil)

\* the two labels allowed for a color: plain, or with the given suffix
\* when the two colors are the same text
LabelFor(color, default, other, other_default, sfx) ==
    IF StripOr(color, default) = StripOr(other, other_default)
    THEN StripOr(color, default) \o " Trim Coil" \o sfx
    ELSE StripOr(color, default) \o " Trim Coil"

SplitAsStated(c) ==
    LET Q == coil_qty_sum(c.line_items)
        new == CoilsOf(c.result)
    IN  IF c.finish \in {"ColorPlus", "Woodtone"} /\ Q > 0
        THEN /\ NonCoil(c.result) = NonCoil(c.line_items)
             /\ Len(new) = 2
             /\ new[1].qty = Ceil(Rat(Q, 4))
             /\ new[2].qty = Ceil(Rat(Q, 4))
             /\ new[1].name # new[2].name
             /\ StripOr(c.body_color, "Body") = StripOr(c.trim_color, "Trim")
                    => /\ new[1].name = LabelFor(c.body_color, "Body", c.trim_color, "Trim", " (Body)")
                       /\ new[2].name = LabelFor(c.trim_color, "Trim", c.body_color, "Body", " (Trim)")
        ELSE c.finish \notin {"ColorPlus", "Woodtone"} => c.result = c.line_items

\* C18: for finish ColorPlus or Woodtone and coil rows of total quantity
\* Q > 0, the split removes every coil row and adds exactly two rows
\* labelled by body and trim color, each with quantity ceil(Q/4); with
\* identical colors the labels carry "(Body)" and "(Trim)", so the two
\* rows always have distinct names; for any other finish the list is
\* unchanged.
Orig_C18_CoilSplitTwoDistinctRows ==
    coil.op \in {"app", "engine"} => SplitAsStated(coil)

\* the same for the window's split alone
AppCoilSplitTwoDistinctRows ==
    coil.op = "app" => SplitAsStated(coil)

\* C27: the coil split is idempotent: applied to a line-item list that has
\* already been split, with the same finish and colors, it returns the same
\* two coil rows with the same quantities and the same material cost as the
\* first application.
Orig_C27_CoilSplitIdempotent ==
    coil.op = "app_twice" =>
        /\ CoilsOf(coil.again) = CoilsOf(coil.result)
        /\ material_total(coil.again) = material_total(coil.result)

\* the second application does keep a split of one roll per color
CoilSplitIdempotentUpToFourRolls ==
    coil.op = "app_twice" /\ coil_qty_sum(coil.line_items) <= 4 =>
        coil.again = coil.result

\* ---------------------------------------------------------------------
\* Claims about the trim floor and the siding-area expansion of
\* price_trade (SpecCost).
\* ---------------------------------------------------------------------
Returned == priced.op = "price_trade" /\ priced.res.status = "returned"

\* the key a trim-size include is priced under
TrimKey(inputs, item) ==
    IF IsBoardAndBatten(Lower(inputs.siding_type)) THEN TRIM_44_MAP(item) ELSE item

LinesNamed(res, name) == {i \in DOMAIN res.line_items : res.line_items[i].name = name}

TrimIncludes(catalog) ==
    {i \in DOMAIN catalog.includes : catalog.includes[i].item \in TrimSizes}

\* C19: for every siding type, every trim-size item the assembly includes
\* appears in the TradeCost with a quantity of at least 2, whatever
\* quantity the assembly's expression evaluates to.
Orig_C19_TrimFloorAlways ==
    Returned =>
        \A i \in TrimIncludes(priced.catalog) :
            \E j \in LinesNamed(priced.res,
                                TrimKey(priced.inputs, priced.catalog.includes[i].item)) :
                priced.res.line_items[j].qty >= 2

\* C19 (amended): a trim-size include whose expression evaluates to a
\* non-zero quantity appears, under its own key or its 4/4 counterpart
\* for Board & Batten, with the quantity max(2, quantity); an include
\* whose expression evaluates to 0 is skipped and gives no line.
Thm_C19_TrimFloorWhenNonZero ==
    Returned =>
        \A i \in TrimIncludes(priced.catalog) :
            LET inc == priced.catalog.includes[i]
                qty == qty_from_expr(inc.qty, priced.outputs)
                named == LinesNamed(priced.res, TrimKey(priced.inputs, inc.item))
            IN  IF qty = 0 THEN named = {}
                ELSE /\ named # {}
                     /\ \A j \in named :
                            priced.res.line_items[j].qty = (IF qty < 2 THEN 2 ELSE qty)

\* one piece was asked for and two were priced
Wit_C19_TrimFloorWhenNonZero ==
    /\ Returned
    /\ \E i \in TrimIncludes(priced.catalog) :
          /\ qty_from_expr(priced.catalog.includes[i].qty, priced.outputs) = 1
          /\ \E j \in LinesNamed(priced.res,
                    TrimKey(priced.inputs, priced.catalog.includes[i].item)) :
                 priced.res.line_items[j].qty = 2

LapOrBnB(inputs) ==
    Lower(inputs.siding_type) = "lap" \/ IsBoardAndBatten(Lower(inputs.siding_type))

\* C20: for siding type Lap or Board & Batten and any assembly, the
\* TradeCost holds no line item for the generic siding-area item
\* siding_sf; Lap gets a plank SKU with quantity boards, Board & Batten
\* gets panel and batten SKUs instead.
Orig_C20_NoSidingAreaLine ==
    Returned /\ LapOrBnB(priced.inputs) =>
        LinesNamed(priced.res, "siding_sf") = {}

\* the includes of the assembly never give a siding_sf line for Lap or
\* Board & Batten: only an entry of colorplus_extras does
IncludesNeverPriceSidingArea ==
    Returned /\ LapOrBnB(priced.inputs)
             /\ (\A i \in DOMAIN priced.catalog.colorplus_extras :
                     priced.catalog.colorplus_extras[i].item # "siding_sf")
        => LinesNamed(priced.res, "siding_sf") = {}

\* ---------------------------------------------------------------------
\* Claims relating price_trade to compute_estimate on the same JobInputs
\* ---------------------------------------------------------------------
\* the JobInputs of a pricing call with the fields the pricer does not read
EstimateInputs(inputs) ==
    inputs @@ [body_color |-> "Iron Gray", trim_color |-> "Arctic White",
               eave_fascia_ft |-> 0, rake_fascia_ft |-> 0,
               soffit_depth_gt_24 |-> FALSE, openings_perimeter_ft |-> 0,
               outside_corners_ft |-> 0, inside_corners_ft |-> 0,
               osb_selected |-> FALSE, osb_area_override_sf |-> 0,
               lap_reveal_in |-> RInt(7), soffit_enabled |-> TRUE]

\* C21: price_trade returns JobOutputs.labor_cost unchanged when it is
\* positive; when JobOutputs has no usable labor figure the labor cost it
\* returns equals the labor cost compute_estimate gives for the same
\* JobInputs.
Orig_C21_LaborFallbackMatchesEstimate ==
    Returned =>
        IF RLt(Zero, priced.outputs.labor_cost)
        THEN priced.res.labor_cost = priced.outputs.labor_cost
        ELSE \E rule \in AreaRules :
                priced.res.labor_cost =
                    compute_estimate(EstimateInputs(priced.inputs), rule).labor_cost

\* the passthrough half alone
LaborPassesThrough ==
    Returned /\ RLt(Zero, priced.outputs.labor_cost)
        => priced.res.labor_cost = priced.outputs.labor_cost

\* ---------------------------------------------------------------------
\* One job through the engine and the pricer: compute_estimate under the
\* configured area rule, then price_trade on the JobOutputs it returned.
\* ---------------------------------------------------------------------
EstAreas == {0, MaxSf, 700}
EstReveals == {RInt(7), Rat(13, 2), RInt(5), RInt(20)}
EstJobInputs ==
    [region : {"Metro"}, siding_type : {"Lap", "Board & Batten", "Shake"},
     finish : {"ColorPlus"}, body_color : {"Iron Gray"}, trim_color : {"Arctic White"},
     complexity : {"Low", "Med", "High"},
     demo_required : {TRUE}, extra_layers : {0}, substrate : {"wood"},
     facades_sf : EstAreas, trim_siding_sf : {0, 200}, eave_fascia_ft : {0},
     rake_fascia_ft : {0}, soffit_depth_gt_24 : {FALSE}, openings_perimeter_ft : {0},
     outside_corners_ft : {0}, inside_corners_ft : {0}, fascia_width_in : {8},
     osb_selected : {FALSE}, osb_area_override_sf : {0}, lap_reveal_in : EstReveals,
     soffit_enabled : {TRUE}]

NoOutputs == [total_sf |-> 0]

EstRest == UNCHANGED <<finVars, catVars, costVars, uiVars, roll, saved, det, hover,
                       coil, units>>

\* handle_pdf_drop, step 3: the quantities
EstCompute ==
    /\ est.op = "input"
    /\ \E out \in {compute_estimate(est.inputs, est.rule)} :
          est' = [est EXCEPT !.op = "estimated", !.outputs = out]
    /\ EstRest

\* handle_pdf_drop, step 4: the quantities priced
EstPrice ==
    /\ est.op = "estimated"
    /\ \E tc \in {price_trade("Siding", est.inputs, est.outputs, CatalogOfContent(1))} :
          est' = [est EXCEPT !.op = "priced", !.res = tc]
    /\ EstRest

EstInit ==
    /\ est \in [op : {"input"}, rule : AreaRules, inputs : EstJobInputs,
                outputs : {NoOutputs}, res : {NoTradeCost}]
    /\ FinUnused
    /\ CatUnused
    /\ CostUnused
    /\ ui = None /\ roll = None /\ saved = None /\ det = None /\ hover = None
    /\ coil = None /\ units = None

EstNext ==
    \/ EstCompute
    \/ EstPrice

SpecEst == EstInit /\ [][EstNext]_vars

Estimated == est.op \in {"estimated", "priced"}

\* quantity of the first line item of that name (0: no such line)
QtyNamed(res, name) ==
    LET hits == {i \in DOMAIN res.line_items : res.line_items[i].name = name}
    IN  IF hits = {} THEN 0
        ELSE res.line_items[CHOOSE i \in hits : \A j \in hits : i <= j].qty

\* the waste fraction of section 4.2, in percent
WasteOf(complexity) ==
    CASE complexity = "Low" -> 20 [] complexity = "Med" -> 23 [] complexity = "High" -> 27

\* C22: for Board & Batten, price_trade prices panels = ceil(S*(1+w)/40)
\* and 3 battens per panel, where S is the composed siding SF the engine
\* computed for the same inputs under the configured area rule
\* (JobOutputs.total_sf) and w the waste fraction of the job's complexity.
Orig_C22_PanelsFromComposedArea ==
    est.op = "priced" /\ est.inputs.siding_type = "Board & Batten" =>
        LET panels == Ceil(RDiv(RMul(RInt(est.outputs.total_sf),
                                     Rat(100 + WasteOf(est.inputs.complexity), 100)),
                                RInt(40)))
        IN  /\ QtyNamed(est.res, "bb_panel_4x10") = panels
            /\ QtyNamed(est.res, "bb_batten_12ft") = 3 * panels

\* under the "max" rule pricer and engine do use the same area
PanelsFromComposedAreaUnderMax ==
    est.op = "priced" /\ est.inputs.siding_type = "Board & Batten" /\ est.rule = "max" =>
        LET panels == Ceil(RDiv(RMul(RInt(est.outputs.total_sf),
                                     Rat(100 + WasteOf(est.inputs.complexity), 100)),
                                RInt(40)))
        IN  /\ QtyNamed(est.res, "bb_panel_4x10") = panels
            /\ QtyNamed(est.res, "bb_batten_12ft") = 3 * panels

\* the catalog reveal nearest to the reveals the jobs ask for
SnappedReveal(reveal_in) ==
    CASE reveal_in = RInt(7) -> RInt(7)
      [] reveal_in = Rat(13, 2) -> RInt(6)
      [] reveal_in = RInt(5) -> RInt(5)
      [] reveal_in = RInt(20) -> Rat(43, 4)

\* the composed siding SF of a job under an area rule
ComposedSf(inputs, rule) ==
    IF rule = "sum" THEN inputs.facades_sf + inputs.trim_siding_sf
    ELSE IF inputs.facades_sf >= inputs.trim_siding_sf THEN inputs.facades_sf
    ELSE inputs.trim_siding_sf

\* C23: for Lap siding compute_estimate returns
\* boards = ceil(round(SF / exposure) * (1 + waste)) with waste 0.20, 0.23
\* or 0.27 for complexity Low, Med or High and exposure the reveal snapped
\* to the catalog table (SF 700, exposure 7, Low: net 100, 120 boards);
\* for any other siding type boards is 0.
Thm_C23_LapBoards ==
    Estimated =>
        est.outputs.boards =
            IF est.inputs.siding_type = "Lap"
            THEN Ceil(RMul(RInt(RoundHalfEven(
                               RDiv(RInt(ComposedSf(est.inputs, est.rule)),
                                    SnappedReveal(est.inputs.lap_reveal_in)))),
                           Rat(100 + WasteOf(est.inputs.complexity), 100)))
            ELSE 0

\* the example of the specification: 700 SF at a 7 inch exposure, Low
Wit_C23_LapBoards ==
    /\ Estimated
    /\ est.inputs.siding_type = "Lap"
    /\ est.outputs.total_sf = 700
    /\ est.outputs.lap_reveal_in_effective = RInt(7)
    /\ est.inputs.complexity = "Low"
    /\ est.outputs.boards = 120

\* ---------------------------------------------------------------------
\* ft_in_to_ft (engine.py): a length typed as feet and inches, or as a
\* plain number, to decimal feet.  A string is a sequence of characters.
\* ---------------------------------------------------------------------
MaxText == 4
Chars == {"1", "6", "'", "\"", " ", ".", ",", "x"}
Digits == {"0", "1", "2", "3", "4", "5", "6", "7", "8", "9"}
DigitVal(c) ==
    CASE c = "0" -> 0 [] c = "1" -> 1 [] c = "2" -> 2 [] c = "3" -> 3 [] c = "4" -> 4
      [] c = "5" -> 5 [] c = "6" -> 6 [] c = "7" -> 7 [] c = "8" -> 8 [] c = "9" -> 9

\* the docstring's and the unit test's strings, and a few more spellings
TypedTexts ==
    { <<"1", "0", "'", "6", "\"">>,
      <<"1", "5", "9", "'", " ", "8", "\"">>,
      <<"2", "6", "1", "'", "1", "1", "\"">>,
      <<" ", "3", " ", "'", " ", "4", " ", "i", "n", " ">>,
      <<"5", "'", "1", "0", "0", "\"">>,
      <<"1", "0", "'", "9", "9", "\"">>,
      <<"5", "'", "6", ".", "5", "\"">>,
      <<"0">>, <<"1", "2", ".", "5">>, <<"1", ",", "2", "3", "4">>,
      <<"-", "5">>, <<"+", "4">>, <<"j", "u", "n", "k">>,
      <<"i", "n", "f">>, <<"n", "a", "n">>, <<"-", "i", "n", "f">>,
      <<"i", "n", "f", "i", "n", "i", "t", "y">> }
UnitTexts == TypedTexts \cup UNION {[1..n -> Chars] : n \in 0..MaxText}

Drop(s, n) == SubSeq(s, n + 1, Len(s))
Front(s) == SubSeq(s, 1, Len(s) - 1)
RECURSIVE LStrip(_)
LStrip(s) == IF s # <<>> /\ Head(s) = " " THEN LStrip(Tail(s)) ELSE s
RECURSIVE RStrip(_)
RStrip(s) == IF s # <<>> /\ s[Len(s)] = " " THEN RStrip(Front(s)) ELSE s
\* the length of the longest run of digits s starts with
RECURSIVE DigitRun(_)
DigitRun(s) == IF s # <<>> /\ Head(s) \in Digits THEN 1 + DigitRun(Tail(s)) ELSE 0
\* int() / float() of a run of digits
RECURSIVE NatOf(_)
NatOf(ds) == IF ds = <<>> THEN 0 ELSE 10 * NatOf(Front(ds)) + DigitVal(ds[Len(ds)])
RECURSIVE Pow10(_)
Pow10(k) == IF k = 0 THEN 1 ELSE 10 * Pow10(k - 1)
RECURSIVE WithoutChar(_, _)
WithoutChar(s, c) ==
    IF s = <<>> THEN <<>>
    ELSE IF Head(s) = c THEN WithoutChar(Tail(s), c)
    ELSE <<Head(s)>> \o WithoutChar(Tail(s), c)

NoMatch == [ok |-> FALSE, feet |-> 0, inches |-> 0]

\* the end of the pattern:  \s*(?:\"|in)?\s*$
match_tail(t) ==
    LET u == LStrip(t)
        v == IF u # <<>> /\ Head(u) = "\"" THEN Tail(u)
             ELSE IF Len(u) >= 2 /\ u[1] = "i" /\ u[2] = "n" THEN Drop(u, 2)
             ELSE u
    IN  LStrip(v) = <<>>

\* the middle of the pattern:  \s*(\d{1,2}) and the end
match_inches(t) ==
    LET u == LStrip(t)
        n == DigitRun(u)
    IN  IF n \in {1, 2} /\ match_tail(Drop(u, n))
        THEN [ok |-> TRUE, feet |-> 0, inches |-> NatOf(SubSeq(u, 1, n))]
        ELSE NoMatch

\* re.match(r"^\s*(\d+)\s*'\s*(\d{1,2})\s*(?:\"|in)?\s*$", s, re.I)
ft_in_match(s) ==
    LET a == LStrip(s)
        n == DigitRun(a)
        b == LStrip(Drop(a, n))
    IN  IF n >= 1 /\ b # <<>> /\ Head(b) = "'"
        THEN [match_inches(Tail(b)) EXCEPT !.feet = NatOf(SubSeq(a, 1, n))]
        ELSE NoMatch

Num(x) == [raised |-> FALSE, kind |-> "num", value |-> x]
Raised == [raised |-> TRUE, kind |-> "num", value |-> Zero]

\* float(s) on the characters of the texts: blanks stripped, a sign, then
\* inf / infinity / nan or digits with at most one point; ValueError else
py_float(s) ==
    LET t == RStrip(LStrip(s))
        signed == t # <<>> /\ Head(t) \in {"+", "-"}
        body == IF signed THEN Tail(t) ELSE t
        sgn == IF signed /\ Head(t) = "-" THEN -1 ELSE 1
        dots == {i \in DOMAIN body : body[i] = "."}
        p == IF dots = {} THEN Len(body) + 1 ELSE CHOOSE i \in dots : TRUE
        whole == SubSeq(body, 1, p - 1)
        frac == Drop(body, p)
    IN  IF body \in {<<"i", "n", "f">>, <<"i", "n", "f", "i", "n", "i", "t", "y">>}
        THEN [raised |-> FALSE, kind |-> IF sgn = 1 THEN "inf" ELSE "-inf", value |-> Zero]
        ELSE IF body = <<"n", "a", "n">>
        THEN [raised |-> FALSE, kind |-> "nan", value |-> Zero]
        ELSE IF /\ Cardinality(dots) <= 1
                /\ Len(whole) + Len(frac) >= 1
                /\ DigitRun(whole) = Len(whole)
                /\ DigitRun(frac) = Len(frac)
        THEN Num(RMul(RInt(sgn), RAdd(RInt(NatOf(whole)),
                                      Rat(NatOf(frac), Pow10(Len(frac))))))
        ELSE Raised

\* feet and inches counted ten to the foot
ft_in_to_ft_tenths(txt) ==
    LET m == ft_in_match(txt)
        r == py_float(WithoutChar(txt, ","))
    IN  IF m.ok THEN Num(RAdd(RInt(m.feet), Rat(m.inches, 10)))
        ELSE IF r.raised THEN Num(Zero)
        ELSE r

\* ft_in_to_ft: feet + inches / 12 on a match, else float() of the text
\* without its commas, else 0.0
ft_in_to_ft(txt) ==
    LET m == ft_in_match(txt)
        r == py_float(WithoutChar(txt, ","))
    IN  IF m.ok THEN Num(RAdd(RInt(m.feet), Rat(m.inches, 12)))
        ELSE IF r.raised THEN Num(Zero)
        ELSE r

UnitsRest == UNCHANGED <<finVars, catVars, costVars, uiVars, roll, saved, det, hover,
                         coil, est>>

\* one call of ft_in_to_ft on the text of an advanced field
FtInToFt ==
    /\ units.op = "input"
    /\ \E r \in {ft_in_to_ft(units.txt)} :
          units' = [units EXCEPT !.op = "done", !.result = r]
    /\ UnitsRest

UnitsInit ==
    /\ units \in [op : {"input"}, txt : UnitTexts, result : {Num(Zero)}]
    /\ FinUnused
    /\ CatUnused
    /\ CostUnused
    /\ ui = None /\ roll = None /\ saved = None /\ det = None /\ hover = None
    /\ coil = None /\ est = None

UnitsNext == FtInToFt

SpecUnits == UnitsInit /\ [][UnitsNext]_vars

AllDigits(t) == \A i \in DOMAIN t : t[i] \in Digits
Strip(t) == RStrip(LStrip(t))
\* what is left of the inches part once its closing mark is taken off
Unmarked(r) ==
    IF r # <<>> /\ r[Len(r)] = "\"" THEN RStrip(Front(r))
    ELSE IF Len(r) >= 2 /\ r[Len(r) - 1] = "i" /\ r[Len(r)] = "n"
    THEN RStrip(SubSeq(r, 1, Len(r) - 2))
    ELSE r
\* the positions of a foot mark with whole feet before and whole inches after
FootMarks(s) ==
    {p \in DOMAIN s :
        /\ s[p] = "'"
        /\ Strip(SubSeq(s, 1, p - 1)) # <<>>
        /\ AllDigits(Strip(SubSeq(s, 1, p - 1)))
        /\ Unmarked(Strip(Drop(s, p))) # <<>>
        /\ AllDigits(Unmarked(Strip(Drop(s, p))))}
FeetOf(s, p) == NatOf(Strip(SubSeq(s, 1, p - 1)))
InchesOf(s, p) == NatOf(Unmarked(Strip(Drop(s, p))))
InchDigits(s, p) == Len(Unmarked(Strip(Drop(s, p))))
\* a number written with digits: a sign, digits, at most one point
PlainNumber(s) ==
    LET t == Strip(WithoutChar(s, ","))
        body == IF t # <<>> /\ Head(t) \in {"+", "-"} THEN Tail(t) ELSE t
    IN  /\ \E i \in DOMAIN body : body[i] \in Digits
        /\ \A i \in DOMAIN body : body[i] \in Digits \cup {"."}
        /\ Cardinality({i \in DOMAIN body : body[i] = "."}) <= 1
NotANumber(s) ==
    LET t == Strip(WithoutChar(s, ","))
        body == IF t # <<>> /\ Head(t) \in {"+", "-"} THEN Tail(t) ELSE t
    IN  body \in {<<"i", "n", "f">>, <<"n", "a", "n">>,
                  <<"i", "n", "f", "i", "n", "i", "t", "y">>}
Converted == units.op = "done"

\* C24: ft_in_to_ft converts every string of the form F'I" (feet and
\* inches) to F + I/12 decimal feet, returns a plain number string as
\* that number of feet, and returns 0.0 for any string it cannot parse;
\* it never raises.
Orig_C24_EveryFeetInchesString ==
    Converted =>
        /\ ~units.result.raised
        /\ \A p \in FootMarks(units.txt) :
              units.result = Num(RAdd(RInt(FeetOf(units.txt, p)),
                                      Rat(InchesOf(units.txt, p), 12)))
        /\ FootMarks(units.txt) = {} /\ ~PlainNumber(units.txt)
              => units.result = Num(Zero)

\* C24, as the code has it: whole feet and whole inches of one or two
\* digits give F + I/12; a feet-and-inches string with more inch digits
\* gives 0.0; a plain number (commas ignored) gives that number; inf,
\* infinity and nan are returned as float() reads them; every other
\* string gives 0.0; no call raises.
Thm_C24_FeetInchesUpToTwoInchDigits ==
    Converted =>
        /\ ~units.result.raised
        /\ \A p \in FootMarks(units.txt) :
              units.result =
                  IF InchDigits(units.txt, p) <= 2
                  THEN Num(RAdd(RInt(FeetOf(units.txt, p)),
                                Rat(InchesOf(units.txt, p), 12)))
                  ELSE Num(Zero)
        /\ FootMarks(units.txt) = {} /\ PlainNumber(units.txt)
              => units.result = py_float(WithoutChar(units.txt, ","))
        /\ FootMarks(units.txt) = {} /\ NotANumber(units.txt)
              => units.result.kind # "num"
        /\ FootMarks(units.txt) = {} /\ ~PlainNumber(units.txt) /\ ~NotANumber(units.txt)
              => units.result = Num(Zero)

\* the unit test's string: 10'6" is 10.5 feet
Wit_C24_FeetInchesUpToTwoInchDigits ==
    /\ Converted
    /\ units.txt = <<"1", "0", "'", "6", "\"">>
    /\ units.result = Num(Rat(21, 2))

(***************************************************************************)
(* Claims about the exits of a recompute, the baseline suppression and the *)
(* coalescing of Materials edits.                                          *)
(***************************************************************************)
\* C25: the reentrancy flag is dropped on every exit of a recompute:
\* whenever no recompute is executing the flag is false, also after a
\* recompute whose body raised or returned early, so a recompute requested
\* after a finished or failed one is admitted by the guard and never dropped.
Thm_C25_FlagDroppedOnEveryExit ==
    /\ [](ui.pc = "idle" => ~ui.recomputing)
    /\ [][ ui.pc = "idle" /\ ui'.requested > ui.requested =>
              /\ ui'.started = ui.started + 1
              /\ ui'.dropped = ui.dropped ]_vars

\* A recompute is executing after one that failed, and none was dropped.
Wit_C25_FlagDroppedOnEveryExit ==
    /\ ui.failed > 0
    /\ ui.pc = "painting"
    /\ ui.recomputing
    /\ ui.started = ui.finished + 1
    /\ ui.dropped = 0

EditFrames == {"costs_edit", "timer"}

\* C26: a recompute triggered by a user edit (a Materials quantity edit or
\* delta click, or an edit of a Costs cell) leaves _costs_baseline
\* unchanged, and the suppression applies to exactly that recompute and to
\* no later one: a recompute no edit asked for runs with the flag down.
Orig_C26_SuppressionForOneRecompute ==
    /\ [](ui.pc = "painting" /\ ui.frame \notin EditFrames => ~ui.suppress)
    /\ [][ ui.pc = "painting" /\ ui.frame \in EditFrames /\ ui'.pc = "idle" =>
              ui'.costs_baseline = ui.costs_baseline ]_vars

\* the first half of C26 alone: the body of an edit's recompute leaves the
\* baseline as it was and lowers the flag
EditRecomputeKeepsBaseline ==
    [][ ui.pc = "painting" /\ ui.frame \in EditFrames /\ ui'.pc = "idle" =>
          /\ ui'.costs_baseline = ui.costs_baseline
          /\ ~ui'.suppress ]_vars

====
